---- MODULE Spec2Model ----
(***************************************************************************)
(* Nuance: retry-validated claim extraction (src/src/nuance/retry.py),     *)
(* the pydantic schema gate (src/src/nuance/schemas.py), the seven         *)
(* deterministic claim rules (src/src/nuance/statistical_checks.py) and    *)
(* the analysis pipeline of src/app.py.                                    *)
(*                                                                         *)
(* Texts are TLA+ strings handled character by character with Python's     *)
(* 0-based find/slice semantics. A claim's confidence is an integer in      *)
(* tenths; the other floats are exact fractions.                           *)
(* A TLA+ string cannot hold a backquote, so Backtick stands for it.       *)
(***************************************************************************)
EXTENDS Integers, Sequences, FiniteSets, TLC

VARIABLES
    max_retries,        \* retry.py: parameter of validate_with_retry
    initial_messages,   \* retry.py: the caller's list
    messages,           \* retry.py:54 local copy, extended on retry
    attempt,            \* retry.py:57 loop index
    response_text,      \* retry.py:68
    e,                  \* the exception in flight in the except clause
    last_error,         \* retry.py:55, 93
    pc,                 \* position in the loop (spec 4.4 state names)
    outcome,            \* what the call returned or raised
    requests,           \* history: conversation sent by each create() call
    responses,          \* history: raw text of each response received
    errors,             \* history: error caught in each failed attempt
    stage,              \* app.py main: pipeline step
    checked,            \* history: claims passed to check_claim
    claim_check_results,\* app.py:319
    claim_audits,       \* app.py:324
    claim,              \* the Claim given to check_claim (rule specification)
    checks,             \* the list check_claim returned
    claim_data,         \* raw claim dict given to Claim validation
    claim_result,       \* what Claim validation did with claim_data
    text_input,         \* app.py:155 the text to analyse
    text_metrics,       \* app.py:316
    summary,            \* app.py:355
    reliability_score,  \* app.py:362
    shown,              \* what the page displays: the step placeholders, the results, the error
    parked,             \* the locals of a second validate_with_retry call that is not running
    show_predictions,   \* st.session_state['show_predictions'], app.py:172
    extracted_claims,   \* st.session_state['extracted_claims'], app.py:182
    user_predictions,   \* st.session_state['user_predictions'], app.py:170
    accuracy_metrics    \* app.py:533

vars == <<max_retries, initial_messages, messages, attempt, response_text, e,
          last_error, pc, outcome, requests, responses, errors, stage, checked,
          claim_check_results, claim_audits, claim, checks, claim_data,
          claim_result, text_input, text_metrics, summary, reliability_score,
          shown, parked, show_predictions, extracted_claims, user_predictions,
          accuracy_metrics>>

retryVars == <<max_retries, initial_messages, messages, attempt, response_text,
               e, last_error, pc, outcome, requests, responses, errors>>
pipelineVars == <<stage, checked, claim_check_results, claim_audits>>
ruleVars == <<claim, checks>>
schemaVars == <<claim_data, claim_result>>
reportVars == <<text_input, text_metrics, summary, reliability_score, shown>>
sessionVars == <<show_predictions, extracted_claims, user_predictions, accuracy_metrics>>
sessionVarsKept == <<show_predictions, extracted_claims, user_predictions>>

(***************************************************************************)
(* Bounds                                                                  *)
(***************************************************************************)
MaxRetriesBound == 3    \* validate_with_retry is explored for max_retries in 0..MaxRetriesBound
MaxIdLen == 3           \* claim ids are explored up to this many characters
MaxQuoteWords == 2      \* quotes given to the rules are built from at most this many phrases
MaxAuditChecks == 2     \* audits are explored for lists of at most this many checks
MaxDenominator == 2     \* metric scores are the fractions in [0,1] with at most this denominator
MaxTextWords == 2       \* texts given to the text metrics have at most this many words
MaxCallRetries == 2     \* two calls on one list are explored for max_retries in 0..MaxCallRetries
MaxAccuracyAudits == 2   \* predictions are compared with lists of at most this many audits
MaxAnalyzerCalls == 2    \* at most this many check_claim calls are made one after the other

(***************************************************************************)
(* Python string primitives                                                *)
(***************************************************************************)
Min(a, b) == IF a < b THEN a ELSE b
Max(a, b) == IF a > b THEN a ELSE b

Char(s, i) == SubSeq(s, i, i)

Digits == {"0", "1", "2", "3", "4", "5", "6", "7", "8", "9"}
LowerLetters == {"a", "b", "c", "d", "e", "f", "g", "h", "i", "j", "k", "l", "m",
                 "n", "o", "p", "q", "r", "s", "t", "u", "v", "w", "x", "y", "z"}
UpperLetters == {"A", "B", "C", "D", "E", "F", "G", "H", "I", "J", "K", "L", "M",
                 "N", "O", "P", "Q", "R", "S", "T", "U", "V", "W", "X", "Y", "Z"}
Whitespace == {" ", "\n", "\t", "\r"}
WordChars == Digits \cup LowerLetters \cup UpperLetters \cup {"_"}

\* str.find(sub, start): lowest 0-based index >= start where sub occurs, else -1
Find(s, sub, start) ==
    LET idx == {i \in start..(Len(s) - Len(sub)) : SubSeq(s, i + 1, i + Len(sub)) = sub}
    IN  IF idx = {} THEN -1 ELSE CHOOSE i \in idx : \A j \in idx : i <= j

\* sub in s
Contains(s, sub) == Find(s, sub, 0) # -1

\* s[a:b] with Python's treatment of negative and out-of-range indices
Slice(s, a, b) ==
    LET n  == Len(s)
        a1 == IF a < 0 THEN Max(a + n, 0) ELSE Min(a, n)
        b1 == IF b < 0 THEN Max(b + n, 0) ELSE Min(b, n)
    IN  SubSeq(s, a1 + 1, b1)

\* s.strip()
Strip(s) ==
    LET keep == {i \in 1..Len(s) : Char(s, i) \notin Whitespace}
    IN  IF keep = {} THEN ""
        ELSE SubSeq(s, CHOOSE i \in keep : \A j \in keep : i <= j,
                       CHOOSE i \in keep : \A j \in keep : i >= j)

\* s.startswith(p)
StartsWith(s, p) == Len(p) <= Len(s) /\ SubSeq(s, 1, Len(p)) = p

\* s.isdigit(): non-empty and every character a digit
IsDigit(s) == Len(s) > 0 /\ \A i \in 1..Len(s) : Char(s, i) \in Digits

LowerOf == [c \in UpperLetters |->
    CASE c = "A" -> "a" [] c = "B" -> "b" [] c = "C" -> "c" [] c = "D" -> "d"
      [] c = "E" -> "e" [] c = "F" -> "f" [] c = "G" -> "g" [] c = "H" -> "h"
      [] c = "I" -> "i" [] c = "J" -> "j" [] c = "K" -> "k" [] c = "L" -> "l"
      [] c = "M" -> "m" [] c = "N" -> "n" [] c = "O" -> "o" [] c = "P" -> "p"
      [] c = "Q" -> "q" [] c = "R" -> "r" [] c = "S" -> "s" [] c = "T" -> "t"
      [] c = "U" -> "u" [] c = "V" -> "v" [] c = "W" -> "w" [] c = "X" -> "x"
      [] c = "Y" -> "y" [] c = "Z" -> "z"]

\* s.lower(), character by character (halving keeps the recursion shallow on
\* texts as long as an exception message)
RECURSIVE Lower(_)
Lower(s) ==
    IF s = "" THEN ""
    ELSE IF Len(s) = 1 THEN (IF s \in UpperLetters THEN LowerOf[s] ELSE s)
    ELSE LET h == Len(s) \div 2
         IN  Lower(SubSeq(s, 1, h)) \o Lower(SubSeq(s, h + 1, Len(s)))

\* str(n) for the small integers the model formats
ToStr(n) ==
    CASE n = 0 -> "0" [] n = 1 -> "1" [] n = 2 -> "2" [] n = 3 -> "3" [] n = 4 -> "4"
      [] n = 5 -> "5" [] n = 6 -> "6" [] n = 7 -> "7" [] n = 8 -> "8" [] n = 9 -> "9"
      [] OTHER -> "10"

\* sep.join(seq)
RECURSIVE Join(_, _)
Join(seq, sep) ==
    IF seq = <<>> THEN ""
    ELSE IF Len(seq) = 1 THEN Head(seq)
    ELSE Head(seq) \o sep \o Join(Tail(seq), sep)

\* the concatenation of a sequence of sequences
RECURSIVE Flatten(_)
Flatten(seqs) == IF seqs = <<>> THEN <<>> ELSE Head(seqs) \o Flatten(Tail(seqs))

(***************************************************************************)
(* Python floats are modelled as exact fractions num/den with den > 0, so  *)
(* that ratios such as failed_checks / total_checks keep their value.      *)
(***************************************************************************)
Frac(n, d) == [num |-> n, den |-> d]
FromInt(n) == Frac(n, 1)
FracAdd(a, b) == Frac(a.num * b.den + b.num * a.den, a.den * b.den)
FracSub(a, b) == Frac(a.num * b.den - b.num * a.den, a.den * b.den)
FracMulInt(a, k) == Frac(a.num * k, a.den)
FracLeq(a, b) == a.num * b.den <= b.num * a.den
FracEq(a, b) == a.num * b.den = b.num * a.den
FracMin(a, b) == IF FracLeq(b, a) THEN b ELSE a
FracMax(a, b) == IF FracLeq(a, b) THEN b ELSE a

(***************************************************************************)
(* schemas.py: Claim and ClaimsExtraction                                  *)
(*                                                                         *)
(* A parsed JSON object is a record that may lack fields. Validation       *)
(* follows pydantic: fields are validated in declaration order, a field    *)
(* validator runs only when the field's own constraints passed, and all    *)
(* errors are collected, each as "location: message".                      *)
(***************************************************************************)
QuoteMinLength == 5
ConfidenceMax == 10                  \* le=1.0, in tenths
ClaimTypes == {"statistical", "causal", "comparative", "absolute"}

Has(d, f) == f \in DOMAIN d

\* Claim.validate_claim_id: TRUE when v is returned, FALSE when ValueError is raised
validate_claim_id(v) == ~(~StartsWith(v, "c") \/ ~IsDigit(Slice(v, 1, Len(v))))

ClaimIdErrors(d) ==
    IF ~Has(d, "claim_id") THEN <<"claim_id: Field required">>
    ELSE IF ~validate_claim_id(d.claim_id)
         THEN <<"claim_id: Value error, claim_id must follow format 'c1', 'c2', etc.">>
    ELSE <<>>

\* faulty variant: min_length is not enforced on quote
QuoteErrors_NoMinLength(d) ==
    IF ~Has(d, "quote") THEN <<"quote: Field required">> ELSE <<>>

QuoteErrors(d) ==
    IF ~Has(d, "quote") THEN <<"quote: Field required">>
    ELSE IF Len(d.quote) < QuoteMinLength
         THEN <<"quote: String should have at least 5 characters">>
    ELSE <<>>

ClaimTypeErrors(d) ==
    IF ~Has(d, "claim_type") THEN <<"claim_type: Field required">>
    ELSE IF d.claim_type \notin ClaimTypes
         THEN <<"claim_type: Input should be 'statistical', 'causal', 'comparative' or 'absolute'">>
    ELSE <<>>

ConfidenceErrors(d) ==
    IF ~Has(d, "confidence") THEN <<"confidence: Field required">>
    ELSE IF d.confidence < 0
         THEN <<"confidence: Input should be greater than or equal to 0">>
    ELSE IF d.confidence > ConfidenceMax
         THEN <<"confidence: Input should be less than or equal to 1">>
    ELSE <<>>

\* the errors of Claim.model_validate(d); empty when d is accepted
ClaimErrors(d) ==
    ClaimIdErrors(d) \o QuoteErrors(d) \o ClaimTypeErrors(d) \o ConfidenceErrors(d)

\* the Claim instance built from an accepted d (list fields default to [])
Claim(d) ==
    [claim_id |-> d.claim_id, quote |-> d.quote, claim_type |-> d.claim_type,
     confidence |-> d.confidence,
     variables |-> IF Has(d, "variables") THEN d.variables ELSE <<>>,
     numerical_values |-> IF Has(d, "numerical_values") THEN d.numerical_values ELSE <<>>]

Prefixed(prefix, errs) == [i \in DOMAIN errs |-> prefix \o errs[i]]

\* the errors of the field claims: List[Claim], min_length=1
ClaimsFieldErrors(data) ==
    IF ~Has(data, "claims") THEN <<"claims: Field required">>
    ELSE LET items == Flatten([i \in DOMAIN data.claims |->
                         Prefixed("claims." \o ToStr(i - 1) \o ".", ClaimErrors(data.claims[i]))])
         IN  IF items # <<>> THEN items
             ELSE IF Len(data.claims) < 1
                  THEN <<"claims: List should have at least 1 item after validation, not 0">>
             ELSE <<>>

\* faulty variant: the declared count is not compared with the list
validate_count_matches_Unchecked(v, data) == TRUE

\* ClaimsExtraction.validate_count_matches: TRUE when v is returned.
\* info.data holds claims only when the field claims validated.
validate_count_matches(v, data) ==
    ~(ClaimsFieldErrors(data) = <<>> /\ Len(data.claims) # v)

\* the errors of the field total_claims: int, ge=1, then the validator
TotalClaimsErrors(data) ==
    IF ~Has(data, "total_claims") THEN <<"total_claims: Field required">>
    ELSE IF data.total_claims < 1
         THEN <<"total_claims: Input should be greater than or equal to 1">>
    ELSE IF ~validate_count_matches(data.total_claims, data)
         THEN <<"total_claims: Value error, total_claims (" \o ToStr(data.total_claims)
                 \o ") must match actual claims count (" \o ToStr(Len(data.claims)) \o ")">>
    ELSE <<>>

ClaimsExtractionErrors(data) == ClaimsFieldErrors(data) \o TotalClaimsErrors(data)

\* the ClaimsExtraction instance built from accepted data
ClaimsExtraction(data) ==
    [claims |-> [i \in DOMAIN data.claims |-> Claim(data.claims[i])],
     total_claims |-> data.total_claims]

\* str() of the pydantic ValidationError listing errs
ValidationErrorText(errs) ==
    ToStr(Len(errs)) \o (IF Len(errs) = 1 THEN " validation error" ELSE " validation errors")
        \o " for ClaimsExtraction\n" \o Join(errs, "\n")

Pending == [status |-> "pending"]
Accepted(v) == [status |-> "accepted", value |-> v]
Rejected(errs) == [status |-> "rejected", errors |-> errs]

\* Claim.model_validate(d)
ValidateClaimData(d) == IF ClaimErrors(d) = <<>> THEN Accepted(Claim(d)) ELSE Rejected(ClaimErrors(d))

NoError == [type |-> "None", text |-> "None"]
ValidationError(errs) == [type |-> "ValidationError", text |-> ValidationErrorText(errs)]

(***************************************************************************)
(* Regular expressions (Python re)                                         *)
(*                                                                         *)
(* A pattern is a tree; Ends(r, s, i) is the set of positions at which a   *)
(* match of r that starts at position i of s can end (positions are        *)
(* 1-based, Len(s)+1 is the end of the text). re.search succeeds when      *)
(* some start has an end.                                                  *)
(***************************************************************************)
Lit(x) == [t |-> "lit", x |-> x]          \* literal text
Cls(c) == [t |-> "cls", x |-> c]          \* one character of the set c
B == [t |-> "b"]                          \* \b
Dot == [t |-> "dot"]                      \* .
Cat(rs) == [t |-> "cat", x |-> rs]        \* r1 r2 ...
Alt(rs) == [t |-> "alt", x |-> rs]        \* r1|r2|...
Opt(r) == [t |-> "opt", x |-> r]          \* r?
Star(r) == [t |-> "star", x |-> r]        \* r*
Plus(r) == [t |-> "plus", x |-> r]        \* r+

D == Cls(Digits)                          \* \d
S == Cls(Whitespace)                      \* \s
W(x) == Cat(<<B, Lit(x), B>>)             \* \bx\b
WOpt(x, y) == Cat(<<B, Lit(x), Opt(Lit(y)), B>>)    \* \bxy?\b
AltLit(xs) == Alt([i \in DOMAIN xs |-> Lit(xs[i])]) \* (x1|x2|...)

IsWordAt(s, i) == i >= 1 /\ i <= Len(s) /\ Char(s, i) \in WordChars

RECURSIVE Ends(_, _, _)
RECURSIVE CatEnds(_, _, _)
RECURSIVE StarEnds(_, _, _, _)

Ends(r, s, i) ==
    CASE r.t = "lit" ->
            IF i + Len(r.x) - 1 <= Len(s) /\ SubSeq(s, i, i + Len(r.x) - 1) = r.x
            THEN {i + Len(r.x)} ELSE {}
      [] r.t = "cls" -> IF i <= Len(s) /\ Char(s, i) \in r.x THEN {i + 1} ELSE {}
      [] r.t = "dot" -> IF i <= Len(s) /\ Char(s, i) # "\n" THEN {i + 1} ELSE {}
      [] r.t = "b" -> IF IsWordAt(s, i - 1) # IsWordAt(s, i) THEN {i} ELSE {}
      [] r.t = "cat" -> CatEnds(r.x, s, {i})
      [] r.t = "alt" -> UNION {Ends(r.x[k], s, i) : k \in DOMAIN r.x}
      [] r.t = "opt" -> {i} \cup Ends(r.x, s, i)
      [] r.t = "star" -> StarEnds(r.x, s, {i}, {i})
      [] r.t = "plus" -> StarEnds(r.x, s, Ends(r.x, s, i), Ends(r.x, s, i))

CatEnds(rs, s, from) ==
    IF rs = <<>> \/ from = {} THEN from
    ELSE CatEnds(Tail(rs), s, UNION {Ends(Head(rs), s, p) : p \in from})

StarEnds(r, s, frontier, seen) ==
    LET next == UNION {Ends(r, s, p) : p \in frontier} \ seen
    IN  IF next = {} THEN seen ELSE StarEnds(r, s, next, seen \cup next)

\* re.search(r, s) is not None
Search(r, s) == \E i \in 1..(Len(s) + 1) : Ends(r, s, i) # {}

\* re.search(r, s, re.IGNORECASE) is not None, for a pattern r written in lower case
SearchIgnoreCase(r, s) == Search(r, Lower(s))

\* any(re.search(pattern, s) for pattern in patterns)
AnySearch(patterns, s) == \E k \in DOMAIN patterns : Search(patterns[k], s)

\* re.search(r, s).group(), for a pattern that matches: the leftmost match;
\* the patterns it is used on end in \b or a literal, so the longest end is the match
Group(r, s) ==
    LET i == CHOOSE i \in 1..(Len(s) + 1) :
                 Ends(r, s, i) # {} /\ \A j \in 1..(i - 1) : Ends(r, s, j) = {}
        j == CHOOSE j \in Ends(r, s, i) : \A k \in Ends(r, s, i) : k <= j
    IN  SubSeq(s, i, j - 1)

(***************************************************************************)
(* statistical_checks.py: the pattern library                              *)
(***************************************************************************)
EXTREME_WORDS == <<
    Cat(<<B, Lit("prove"), Opt(Cls({"s", "d"})), B>>), W("always"), W("never"),
    W("impossible"), W("certainly"), W("definitely"), W("clearly"), W("obviously"),
    W("undoubtedly"), W("all"), W("none"), W("every"), W("no"),
    Cat(<<B, Lit("cure"), Opt(Cls({"s", "d"})), B>>), W("will"),
    Cat(<<B, Lit("guarantee"), Opt(Cls({"s", "d"})), B>>), W("certain"),
    W("zero risk"), W("must"), Cat(<<B, Lit("can"), Opt(Lit("'")), Lit("t"), B>>),
    Cat(<<B, Lit("won"), Opt(Lit("'")), Lit("t"), B>>), WOpt("eliminate", "s"),
    WOpt("ensure", "s"), W("100%"), W("completely"), W("entirely"), W("absolutely"),
    W("totally") >>

CAUSATION_WORDS == <<
    WOpt("cause", "s"), W("caused by"), Cat(<<B, Lit("lead"), Opt(Lit("s")), Lit(" to"), B>>),
    Cat(<<B, Lit("result"), Opt(Lit("s")), Lit(" in"), B>>),
    WOpt("make", "s"), WOpt("force", "s"), WOpt("produce", "s"), WOpt("create", "s"),
    W("due to"), W("because of"), W("therefore"), W("thus"),
    WOpt("increase", "s"), WOpt("decrease", "s"), WOpt("improve", "s"), WOpt("worsen", "s"),
    WOpt("cure", "s"), WOpt("boost", "s"), WOpt("reduce", "s"), WOpt("raise", "s"),
    WOpt("lower", "s"), WOpt("enhance", "s"), WOpt("prevent", "s"), WOpt("trigger", "s"),
    WOpt("enable", "s"), WOpt("disable", "s") >>

\* the last pattern is \bN\s*=\s*\d+; the list is only searched with re.IGNORECASE
SAMPLE_SIZE_PATTERNS == <<
    Cat(<<B, Lit("n"), Star(S), Lit("="), Star(S), Plus(D)>>),
    Cat(<<B, Lit("sample size"), Plus(Cls({":"} \cup Whitespace)), Plus(D)>>),
    Cat(<<B, Plus(D), Plus(S), Lit("participant"), Opt(Lit("s")), B>>),
    Cat(<<B, Plus(D), Plus(S), Lit("subject"), Opt(Lit("s")), B>>),
    Cat(<<B, Plus(D), Plus(S), Lit("respondent"), Opt(Lit("s")), B>>),
    Cat(<<B, Plus(D), Plus(S), Lit("people"), B>>),
    Cat(<<B, Lit("n"), Star(S), Lit("="), Star(S), Plus(D)>>) >>

RISK_MULTIPLIER_PATTERNS == <<
    Cat(<<B, Lit("doubl"), AltLit(<<"e", "es", "ed", "ing">>), B>>),
    Cat(<<B, Lit("tripl"), AltLit(<<"e", "es", "ed", "ing">>), B>>),
    Cat(<<B, Plus(D), Lit("x"), Plus(S), AltLit(<<"higher", "more", "greater", "increased">>)>>),
    Cat(<<B, Plus(D), Plus(S), Lit("times"), Plus(S),
          AltLit(<<"higher", "more", "greater", "as likely">>)>>),
    Cat(<<B, Plus(D), Lit("%"), Plus(S), Lit("increase")>>),
    Cat(<<B, Plus(D), Lit("00%"), B>>) >>

RISK_WORDS == <<
    W("risk"), W("chance"), W("likely"), W("likelihood"), W("probability"), W("odds"),
    W("more likely"), W("hazard") >>

EFFECT_WORDS == <<
    WOpt("improve", "d"), WOpt("reduce", "d"), WOpt("increase", "d"), WOpt("decrease", "d"),
    W("better"), W("worse"), W("more effective"), W("less effective"),
    W("superior"), W("inferior"), WOpt("enhance", "d"), W("worked"),
    W("helped"), W("benefited"), W("boosted"),
    WOpt("regulate", "s"), WOpt("fight", "s"), WOpt("block", "s"), WOpt("stop", "s"),
    WOpt("prevent", "s"), WOpt("cure", "s") >>

COMPARATOR_WORDS == <<
    W("than"), Cat(<<B, Lit("vs"), Opt(Lit(".")), B>>), W("versus"), W("compared to"),
    W("compared with"), W("relative to"), W("against"),
    W("control group"), W("placebo"), W("baseline"),
    W("control"), W("comparison group") >>

(***************************************************************************)
(* statistical_checks.py: the text metrics of StatisticalAnalyzer          *)
(***************************************************************************)
HEDGE_WORDS == <<
    W("might"), W("may"), W("could"), W("possibly"), W("perhaps"),
    W("probably"), W("likely"), WOpt("seem", "s"), WOpt("appear", "s"), WOpt("suggest", "s"),
    WOpt("tend", "s"), W("often"), W("sometimes"), W("generally") >>

\* \d+\.?\d*
Decimal == Cat(<<Plus(D), Opt(Lit(".")), Star(D)>>)

NUMBER_PATTERNS == <<
    Cat(<<B, Decimal, Lit("%")>>),
    Cat(<<B, Decimal, Lit("x"), B>>),
    Cat(<<B, Decimal, Star(S), Lit("times"), B>>),
    Cat(<<B, Plus(D), Star(S), Lit("percent")>>),
    Cat(<<Lit("$"), Plus(D)>>),
    Cat(<<B, Decimal, Star(S), AltLit(<<"million", "billion", "thousand">>), B>>) >>

\* len(re.findall(r, s)) from position i on: matches are taken left to right
\* and do not overlap. The patterns counted are a literal with an optional
\* ending between two \b, so a match has one possible end and is never empty.
RECURSIVE FindAllCount(_, _, _)
FindAllCount(r, s, i) ==
    LET starts == {j \in i..Len(s) : Ends(r, s, j) # {}}
    IN  IF starts = {} THEN 0
        ELSE LET j == CHOOSE j \in starts : \A k \in starts : j <= k
                 n == CHOOSE n \in Ends(r, s, j) : \A k \in Ends(r, s, j) : k <= n
             IN  1 + FindAllCount(r, s, n)

\* sum(len(re.findall(pattern, s)) for pattern in patterns)
RECURSIVE SumFindAll(_, _)
SumFindAll(patterns, s) ==
    IF patterns = <<>> THEN 0
    ELSE FindAllCount(Head(patterns), s, 1) + SumFindAll(Tail(patterns), s)

SentenceEnds == {".", "!", "?"}

\* re.split(r'[.!?]+', text) from position i on, without its empty pieces
RECURSIVE SplitPieces(_, _)
SplitPieces(text, i) ==
    IF i > Len(text) THEN <<>>
    ELSE IF Char(text, i) \in SentenceEnds THEN SplitPieces(text, i + 1)
    ELSE LET stops == {j \in i..Len(text) : Char(text, j) \in SentenceEnds}
             j == IF stops = {} THEN Len(text) + 1
                  ELSE CHOOSE j \in stops : \A k \in stops : j <= k
         IN  <<SubSeq(text, i, j - 1)>> \o SplitPieces(text, j)

\* StatisticalAnalyzer._split_sentences
split_sentences(text) ==
    LET stripped == [k \in DOMAIN SplitPieces(text, 1) |-> Strip(SplitPieces(text, 1)[k])]
    IN  SelectSeq(stripped, LAMBDA s : s # "")

\* len(text.split())
WordCount(text) ==
    Cardinality({i \in 1..Len(text) :
                    /\ Char(text, i) \notin Whitespace
                    /\ (i = 1 \/ Char(text, i - 1) \in Whitespace)})

\* StatisticalAnalyzer._calculate_data_density
calculate_data_density(text) ==
    LET sentences == split_sentences(text)
        sentences_with_numbers ==
            Cardinality({k \in DOMAIN sentences :
                            \E p \in DOMAIN NUMBER_PATTERNS :
                                SearchIgnoreCase(NUMBER_PATTERNS[p], sentences[k])})
    IN  IF sentences = <<>> THEN FromInt(0)
        ELSE Frac(sentences_with_numbers, Len(sentences))

\* faulty variant: the ratio is not capped at 1.0
calculate_vagueness_score_Uncapped(text) ==
    LET total_words == WordCount(text)
    IN  IF total_words = 0 THEN FromInt(0)
        ELSE FracMulInt(Frac(SumFindAll(HEDGE_WORDS, Lower(text)), total_words), 10)

\* StatisticalAnalyzer._calculate_vagueness_score
calculate_vagueness_score(text) ==
    LET text_lower == Lower(text)
        total_words == WordCount(text)
        hedge_count == SumFindAll(HEDGE_WORDS, text_lower)
    IN  IF total_words = 0 THEN FromInt(0)
        ELSE FracMin(FromInt(1), FracMulInt(Frac(hedge_count, total_words), 10))

\* schemas.py:90-99, the constraint errors of a TextMetrics(...) call
TextMetricsErrors(m) ==
    (IF ~FracLeq(FromInt(0), m.data_density_score)
     THEN <<"data_density_score: Input should be greater than or equal to 0">>
     ELSE IF ~FracLeq(m.data_density_score, FromInt(1))
     THEN <<"data_density_score: Input should be less than or equal to 1">> ELSE <<>>)
    \o (IF ~FracLeq(FromInt(0), m.vagueness_score)
        THEN <<"vagueness_score: Input should be greater than or equal to 0">>
        ELSE IF ~FracLeq(m.vagueness_score, FromInt(1))
        THEN <<"vagueness_score: Input should be less than or equal to 1">> ELSE <<>>)
    \o (IF m.extreme_language_count < 0
        THEN <<"extreme_language_count: Input should be greater than or equal to 0">> ELSE <<>>)
    \o (IF m.causation_language_count < 0
        THEN <<"causation_language_count: Input should be greater than or equal to 0">>
        ELSE <<>>)

\* TextMetrics(...): the object, or the ValidationError the constructor raises
TextMetrics(m) ==
    IF TextMetricsErrors(m) = <<>> THEN m
    ELSE [raised |-> ValidationError(TextMetricsErrors(m))]

\* StatisticalAnalyzer.calculate_text_metrics
calculate_text_metrics(text) ==
    TextMetrics([data_density_score |-> calculate_data_density(text),
                 vagueness_score |-> calculate_vagueness_score(text),
                 extreme_language_count |-> SumFindAll(EXTREME_WORDS, Lower(text)),
                 sample_size_mentioned |->
                     \E k \in DOMAIN SAMPLE_SIZE_PATTERNS :
                         SearchIgnoreCase(SAMPLE_SIZE_PATTERNS[k], text),
                 causation_language_count |-> SumFindAll(CAUSATION_WORDS, Lower(text))])
(***************************************************************************)
(* statistical_checks.py: the seven rules of StatisticalAnalyzer           *)
(***************************************************************************)
None == "<None>"

StatisticalCheck(name, passed, severity, explanation, suggestion) ==
    [check_name |-> name, passed |-> passed, severity |-> severity,
     explanation |-> explanation, suggestion |-> suggestion]

\* faulty variant: only 'controlled trial' counts as experimental evidence
EvidencePattern_TrialOnly == Alt(<<W("controlled trial")>>)

\* statistical_checks.py:244-248, searched with re.IGNORECASE
EvidencePattern ==
    Alt(<<W("randomized"), W("controlled trial"), W("rct"), W("experiment"), W("intervention")>>)

check_correlation_vs_causation(c) ==
    LET quote_lower == Lower(c.quote)
        has_causation_words == AnySearch(CAUSATION_WORDS, quote_lower)
        has_experimental_evidence == SearchIgnoreCase(EvidencePattern, c.quote)
    IN  IF has_causation_words /\ ~has_experimental_evidence
        THEN StatisticalCheck("Correlation vs Causation", FALSE, "high",
                 "Claim uses causal language ('" \o c.quote
                     \o "') but doesn't mention experimental evidence.",
                 "Either provide experimental evidence or rephrase using correlational language")
        ELSE StatisticalCheck("Correlation vs Causation", TRUE, "low",
                 "No inappropriate causal language detected.", None)

\* \d+%|\d+\s*percent|\d+\.?\d*\s*times
HasNumbersPattern ==
    Alt(<<Cat(<<Plus(D), Lit("%")>>),
          Cat(<<Plus(D), Star(S), Lit("percent")>>),
          Cat(<<Plus(D), Opt(Lit(".")), Star(D), Star(S), Lit("times")>>)>>)

\* faulty variant: the sample size is also looked for in the analyzer's document
check_sample_size_InDocument(c) ==
    LET quote_lower == Lower(c.quote)
        has_numbers == Search(HasNumbersPattern, quote_lower)
        has_sample_size == \E k \in DOMAIN SAMPLE_SIZE_PATTERNS :
                               \/ SearchIgnoreCase(SAMPLE_SIZE_PATTERNS[k], c.quote)
                               \/ SearchIgnoreCase(SAMPLE_SIZE_PATTERNS[k], text_input)
    IN  IF (has_numbers \/ c.numerical_values # <<>>) /\ ~has_sample_size
        THEN StatisticalCheck("Sample Size Disclosure", FALSE, "medium",
                 "Statistical claim '" \o c.quote
                     \o "' provides numbers but doesn't mention sample size.",
                 "Include sample size: 'n=X' or 'based on X participants'")
        ELSE StatisticalCheck("Sample Size Disclosure", TRUE, "low",
                 "Sample size mentioned or not required for this claim type.", None)

\* faulty variant: the rule applies to every claim typed statistical (the source
\* decides by content: "content-based, not type-based")
check_sample_size_TypeBased(c) ==
    LET quote_lower == Lower(c.quote)
        has_numbers == Search(HasNumbersPattern, quote_lower) \/ c.claim_type = "statistical"
        has_sample_size == \E k \in DOMAIN SAMPLE_SIZE_PATTERNS :
                               SearchIgnoreCase(SAMPLE_SIZE_PATTERNS[k], c.quote)
    IN  IF (has_numbers \/ c.numerical_values # <<>>) /\ ~has_sample_size
        THEN StatisticalCheck("Sample Size Disclosure", FALSE, "medium",
                 "Statistical claim '" \o c.quote
                     \o "' provides numbers but doesn't mention sample size.",
                 "Include sample size: 'n=X' or 'based on X participants'")
        ELSE StatisticalCheck("Sample Size Disclosure", TRUE, "low",
                 "Sample size mentioned or not required for this claim type.", None)

\* StatisticalAnalyzer._check_sample_size
check_sample_size(c) ==
    LET quote_lower == Lower(c.quote)
        has_numbers == Search(HasNumbersPattern, quote_lower)
        has_sample_size == \E k \in DOMAIN SAMPLE_SIZE_PATTERNS :
                               SearchIgnoreCase(SAMPLE_SIZE_PATTERNS[k], c.quote)
    IN  IF (has_numbers \/ c.numerical_values # <<>>) /\ ~has_sample_size
        THEN StatisticalCheck("Sample Size Disclosure", FALSE, "medium",
                 "Statistical claim '" \o c.quote
                     \o "' provides numbers but doesn't mention sample size.",
                 "Include sample size: 'n=X' or 'based on X participants'")
        ELSE StatisticalCheck("Sample Size Disclosure", TRUE, "low",
                 "Sample size mentioned or not required for this claim type.", None)

HighImpactWords == <<"will", "cure", "guarantee", "must">>

check_extreme_language_in_claim(c) ==
    LET quote_lower == Lower(c.quote)
        extreme_matches == SelectSeq(EXTREME_WORDS, LAMBDA pattern : Search(pattern, quote_lower))
        matched_words == [k \in DOMAIN extreme_matches |-> Group(extreme_matches[k], quote_lower)]
    IN  IF extreme_matches # <<>>
        THEN StatisticalCheck("Extreme Language", FALSE,
                 IF \E k \in DOMAIN HighImpactWords : Contains(quote_lower, HighImpactWords[k])
                 THEN "high" ELSE "medium",
                 "Claim uses absolute language: '"
                     \o Join(SubSeq(matched_words, 1, Min(3, Len(matched_words))), ", ") \o "'.",
                 "Use qualified language: 'often', 'may', 'suggests', 'can help', 'associated with'")
        ELSE StatisticalCheck("Extreme Language", TRUE, "low",
                 "No problematic absolute language detected.", None)

\* \d+%|\d+\s*percent
PercentagePattern ==
    Alt(<<Cat(<<Plus(D), Lit("%")>>), Cat(<<Plus(D), Star(S), Lit("percent")>>)>>)

\* increase[sd]?|decrease[sd]?|more|less|higher|lower|times
RelativePattern ==
    Alt(<<Cat(<<Lit("increase"), Opt(Cls({"s", "d"}))>>),
          Cat(<<Lit("decrease"), Opt(Cls({"s", "d"}))>>),
          Lit("more"), Lit("less"), Lit("higher"), Lit("lower"), Lit("times")>>)

\* \d+x\b
MultiplierPattern == Cat(<<Plus(D), Lit("x"), B>>)

\* \bof\s+\d+|\bout of\s+\d+|from\s+\d+\s+to\s+\d+|n\s*=\s*\d+
BaseRateAbsolutePattern ==
    Alt(<<Cat(<<B, Lit("of"), Plus(S), Plus(D)>>),
          Cat(<<B, Lit("out of"), Plus(S), Plus(D)>>),
          Cat(<<Lit("from"), Plus(S), Plus(D), Plus(S), Lit("to"), Plus(S), Plus(D)>>),
          Cat(<<Lit("n"), Star(S), Lit("="), Star(S), Plus(D)>>)>>)

\* faulty variant: a satisfied base-rate rule keeps the severity of the failure it looked for
check_base_rate_PassMedium(c) ==
    LET quote_lower == Lower(c.quote)
        has_percentage == Search(PercentagePattern, quote_lower)
        has_relative == Search(RelativePattern, quote_lower)
        has_multiplier == Search(MultiplierPattern, quote_lower)
        has_absolute == Search(BaseRateAbsolutePattern, quote_lower)
    IN  IF (has_percentage \/ has_relative \/ has_multiplier) /\ ~has_absolute
        THEN StatisticalCheck("Base Rate Neglect", FALSE, "medium",
                 "Claim provides relative statistics without absolute context.",
                 "Include absolute numbers: '50% increase (from 100 to 150)' or baseline context")
        ELSE StatisticalCheck("Base Rate Neglect", TRUE,
                 IF has_percentage \/ has_relative \/ has_multiplier THEN "medium" ELSE "low",
                 "Base rates provided or not applicable.", None)

check_base_rate(c) ==
    LET quote_lower == Lower(c.quote)
        has_percentage == Search(PercentagePattern, quote_lower)
        has_relative == Search(RelativePattern, quote_lower)
        has_multiplier == Search(MultiplierPattern, quote_lower)
        has_absolute == Search(BaseRateAbsolutePattern, quote_lower)
    IN  IF (has_percentage \/ has_relative \/ has_multiplier) /\ ~has_absolute
        THEN StatisticalCheck("Base Rate Neglect", FALSE, "medium",
                 "Claim provides relative statistics without absolute context.",
                 "Include absolute numbers: '50% increase (from 100 to 150)' or baseline context")
        ELSE StatisticalCheck("Base Rate Neglect", TRUE, "low",
                 "Base rates provided or not applicable.", None)

quant_keywords == <<"significant", "substantial", "large", "small", "majority",
                    "minority", "most", "few", "many", "rare", "common">>

\* faulty variant: the numerical values are not consulted
check_data_support_KeywordOnly(c) ==
    LET quote_lower == Lower(c.quote)
        has_quant_keyword == \E k \in DOMAIN quant_keywords : Contains(quote_lower, quant_keywords[k])
    IN  IF has_quant_keyword
        THEN StatisticalCheck("Data Support", FALSE, "medium",
                 "Claim uses quantitative language ('" \o c.quote
                     \o "') but provides no actual numbers.",
                 "Replace vague terms with specific percentages or counts")
        ELSE StatisticalCheck("Data Support", TRUE, "low",
                 "Claims are appropriately supported with data or don't require it.", None)

\* StatisticalAnalyzer._check_data_support
check_data_support(c) ==
    LET quote_lower == Lower(c.quote)
        has_quant_keyword == \E k \in DOMAIN quant_keywords : Contains(quote_lower, quant_keywords[k])
    IN  IF has_quant_keyword /\ c.numerical_values = <<>>
        THEN StatisticalCheck("Data Support", FALSE, "medium",
                 "Claim uses quantitative language ('" \o c.quote
                     \o "') but provides no actual numbers.",
                 "Replace vague terms with specific percentages or counts")
        ELSE StatisticalCheck("Data Support", TRUE, "low",
                 "Claims are appropriately supported with data or don't require it.", None)

\* \d+\.?\d*%?
NumberMaybePercent == Cat(<<Plus(D), Opt(Lit(".")), Star(D), Opt(Lit("%"))>>)

\* \d+\.?\d*%
NumberPercent == Cat(<<Plus(D), Opt(Lit(".")), Star(D), Lit("%")>>)

RiskAbsolutePattern ==
    Alt(<<Cat(<<B, Lit("from"), Plus(S), NumberMaybePercent, Plus(S), Lit("to"), Plus(S),
                NumberMaybePercent>>),
          Cat(<<B, Lit("out of"), Plus(S), Plus(D)>>),
          Cat(<<B, Lit("of"), Plus(S), Plus(D)>>),
          Cat(<<B, Lit("in"), Plus(S), Plus(D)>>),
          Cat(<<B, NumberPercent, Plus(S), Lit("to"), Plus(S), NumberPercent>>),
          Cat(<<B, Lit("absolute risk")>>)>>)

\* faulty variant: absolute context is not looked for
check_relative_risk_without_context_NoContext(c) ==
    LET quote_lower == Lower(c.quote)
        has_risk_multiplier == AnySearch(RISK_MULTIPLIER_PATTERNS, quote_lower)
        has_risk_word == AnySearch(RISK_WORDS, quote_lower)
    IN  IF has_risk_multiplier /\ has_risk_word
        THEN StatisticalCheck("Relative Risk Without Context", FALSE, "high",
                 "Claim uses alarming relative risk language ('" \o c.quote
                     \o "') without providing absolute numbers.",
                 "Include absolute risk: 'increased from 0.5% to 1%'")
        ELSE StatisticalCheck("Relative Risk Without Context", TRUE, "low",
                 "Relative risk properly contextualized or not applicable.", None)

\* faulty variant: the failure is given severity critical
check_relative_risk_without_context_Critical(c) ==
    LET quote_lower == Lower(c.quote)
        has_risk_multiplier == AnySearch(RISK_MULTIPLIER_PATTERNS, quote_lower)
        has_risk_word == AnySearch(RISK_WORDS, quote_lower)
        has_absolute == Search(RiskAbsolutePattern, quote_lower)
    IN  IF has_risk_multiplier /\ has_risk_word /\ ~has_absolute
        THEN StatisticalCheck("Relative Risk Without Context", FALSE, "critical",
                 "Claim uses alarming relative risk language ('" \o c.quote
                     \o "') without providing absolute numbers.",
                 "Include absolute risk: 'increased from 0.5% to 1%'")
        ELSE StatisticalCheck("Relative Risk Without Context", TRUE, "low",
                 "Relative risk properly contextualized or not applicable.", None)

\* StatisticalAnalyzer._check_relative_risk_without_context
check_relative_risk_without_context(c) ==
    LET quote_lower == Lower(c.quote)
        has_risk_multiplier == AnySearch(RISK_MULTIPLIER_PATTERNS, quote_lower)
        has_risk_word == AnySearch(RISK_WORDS, quote_lower)
        has_absolute == Search(RiskAbsolutePattern, quote_lower)
    IN  IF has_risk_multiplier /\ has_risk_word /\ ~has_absolute
        THEN StatisticalCheck("Relative Risk Without Context", FALSE, "high",
                 "Claim uses alarming relative risk language ('" \o c.quote
                     \o "') without providing absolute numbers.",
                 "Include absolute risk: 'increased from 0.5% to 1%'")
        ELSE StatisticalCheck("Relative Risk Without Context", TRUE, "low",
                 "Relative risk properly contextualized or not applicable.", None)

ImplicitComparatorPattern ==
    Alt(<<Cat(<<B, Alt(<<Cat(<<Lit("increase"), Opt(Cls({"d", "s"}))>>),
                         Cat(<<Lit("decrease"), Opt(Cls({"d", "s"}))>>),
                         Cat(<<Lit("reduce"), Opt(Lit("d"))>>),
                         Cat(<<Lit("improve"), Opt(Lit("d"))>>),
                         Lit("rose"), Lit("fell"), Lit("dropped"), Lit("grew"),
                         Cat(<<Lit("enhance"), Opt(Lit("d"))>>)>>),
                Plus(S), AltLit(<<"by", "from", "to">>), Plus(S), Plus(D)>>),
          Cat(<<B, Lit("from"), Plus(S), Plus(D), Star(Dot), B, Lit("to"), Plus(S), Plus(D)>>)>>)

\* faulty variant: only 'trial' marks a research claim
ResearchPattern_TrialOnly == Alt(<<W("trial")>>)

\* statistical_checks.py:471-474
ResearchPattern ==
    Alt(<<W("study"), W("research"), W("trial"), W("test"),
          WOpt("participant", "s"), WOpt("subject", "s")>>)

check_missing_comparator(c) ==
    LET quote_lower == Lower(c.quote)
        has_effect_claim == AnySearch(EFFECT_WORDS, quote_lower)
        has_comparator == AnySearch(COMPARATOR_WORDS, quote_lower)
        has_implicit_comparator == Search(ImplicitComparatorPattern, quote_lower)
        is_research_claim == Search(ResearchPattern, quote_lower)
    IN  IF has_effect_claim /\ ~has_comparator /\ ~has_implicit_comparator
        THEN StatisticalCheck("Missing Comparator", FALSE,
                 IF is_research_claim THEN "high" ELSE "medium",
                 "Claim states that something '" \o c.quote
                     \o "' but doesn't specify compared to what.",
                 "Specify the comparison: 'improved compared to placebo'")
        ELSE StatisticalCheck("Missing Comparator", TRUE, "low",
                 "Comparisons are properly specified or not required.", None)

\* faulty variant: the relative-risk rule is run before the data-support rule
check_claim_Reordered(c) ==
    << check_correlation_vs_causation(c),
       check_sample_size(c),
       check_extreme_language_in_claim(c),
       check_base_rate(c),
       check_relative_risk_without_context(c),
       check_data_support(c),
       check_missing_comparator(c) >>

\* StatisticalAnalyzer.check_claim
check_claim(c) ==
    << check_correlation_vs_causation(c),
       check_sample_size(c),
       check_extreme_language_in_claim(c),
       check_base_rate(c),
       check_data_support(c),
       check_relative_risk_without_context(c),
       check_missing_comparator(c) >>

\* a variable no statement has assigned yet
Unset == [unset |-> TRUE]

\* the page before the pipeline section is drawn
NothingShown == [step1 |-> "empty", step2 |-> "empty", step3 |-> "empty",
                 results |-> Unset, error |-> <<>>]

\* no analysis run is under way
ReportIdle ==
    /\ text_input = ""
    /\ text_metrics = Unset
    /\ summary = None
    /\ reliability_score = Unset
    /\ shown = NothingShown

\* the second call has not been made
NotStarted == [pc |-> "NotStarted"]

\* app.py:170-173, the session state of a page on which no prediction was made
SessionIdle ==
    /\ show_predictions = FALSE
    /\ extracted_claims = <<>>
    /\ user_predictions = <<>>
    /\ accuracy_metrics = Unset

(***************************************************************************)
(* JSON texts and json.loads                                               *)
(*                                                                         *)
(* json.loads is the standard library's parser: it is modelled by a table  *)
(* from the JSON texts of JsonObjects to the objects they denote; every    *)
(* other text raises JSONDecodeError.                                      *)
(***************************************************************************)
ConfidenceText(n) == ToStr(n \div 10) \o "." \o ToStr(n % 10)

Quoted(s) == "\"" \o s \o "\""

DumpList(l) == "[" \o Join([i \in DOMAIN l |-> Quoted(l[i])], ", ") \o "]"

DumpClaim(c) ==
    "{" \o Join(
        (IF Has(c, "claim_id") THEN <<"\"claim_id\": " \o Quoted(c.claim_id)>> ELSE <<>>)
     \o (IF Has(c, "quote") THEN <<"\"quote\": " \o Quoted(c.quote)>> ELSE <<>>)
     \o (IF Has(c, "claim_type") THEN <<"\"claim_type\": " \o Quoted(c.claim_type)>> ELSE <<>>)
     \o (IF Has(c, "confidence") THEN <<"\"confidence\": " \o ConfidenceText(c.confidence)>> ELSE <<>>)
     \o (IF Has(c, "variables") THEN <<"\"variables\": " \o DumpList(c.variables)>> ELSE <<>>)
     \o (IF Has(c, "numerical_values")
         THEN <<"\"numerical_values\": " \o DumpList(c.numerical_values)>> ELSE <<>>),
        ", ") \o "}"

\* the JSON text of an extraction object
dumps(data) ==
    "{" \o Join(
        (IF Has(data, "claims")
         THEN <<"\"claims\": [" \o Join([i \in DOMAIN data.claims |-> DumpClaim(data.claims[i])], ", ") \o "]">>
         ELSE <<>>)
     \o (IF Has(data, "total_claims")
         THEN <<"\"total_claims\": " \o ToStr(data.total_claims)>> ELSE <<>>),
        ", ") \o "}"

\* claim dicts as the generation service may emit them
RawClaim(id, quote, type, conf, nums) ==
    [claim_id |-> id, quote |-> quote, claim_type |-> type, confidence |-> conf,
     variables |-> <<>>, numerical_values |-> nums]

CoffeeClaim == RawClaim("c1", "Coffee drinking causes longevity", "causal", 9, <<>>)

OneClaim == [claims |-> <<CoffeeClaim>>, total_claims |-> 1]
TwoClaims ==
    [claims |-> <<CoffeeClaim,
                  RawClaim("c2", "Smokers are 3x more likely to develop cancer",
                           "statistical", 8, <<"3x">>)>>,
     total_claims |-> 2]
\* a claim of the shortest accepted quote, without the optional lists
MinimalClaim ==
    [claims |-> <<[claim_id |-> "c1", quote |-> "Drugs", claim_type |-> "absolute",
                   confidence |-> 10]>>,
     total_claims |-> 1]
NoClaims == [claims |-> <<>>, total_claims |-> 0]
CountTooHigh == [claims |-> <<CoffeeClaim>>, total_claims |-> 2]
WithEmptyQuote == [claims |-> <<RawClaim("c1", "", "statistical", 8, <<>>)>>, total_claims |-> 1]
WithShortQuote ==
    [claims |-> <<CoffeeClaim, RawClaim("c2", "Test", "statistical", 8, <<"50%">>)>>,
     total_claims |-> 2]

\* a claim whose quote holds the three characters that open a code block
WithFenceInQuote ==
    [claims |-> <<RawClaim("c1", "Use ^^^ in 50% of posts", "statistical", 8, <<"50%">>)>>,
     total_claims |-> 1]

\* two claims that carry the same id
DuplicateIds ==
    [claims |-> <<CoffeeClaim,
                  RawClaim("c1", "Sales increased by 300%", "statistical", 8, <<"300%">>)>>,
     total_claims |-> 2]

JsonObjects == {OneClaim, TwoClaims, MinimalClaim, NoClaims, CountTooHigh,
                WithEmptyQuote, WithShortQuote, WithFenceInQuote, DuplicateIds}

JsonTable == {[text |-> dumps(d), data |-> d] : d \in JsonObjects}

JSONDecodeError(str) ==
    [type |-> "JSONDecodeError",
     text |-> IF str # "" /\ Char(str, 1) = "{"
              THEN IF Cardinality({i \in 1..Len(str) : Char(str, i) = "\""}) % 2 = 1
                   THEN "Unterminated string starting at"
                   ELSE "Expecting property name enclosed in double quotes"
              ELSE "Expecting value: line 1 column 1 (char 0)"]

\* json.loads(str) for a text that parses
json_loads(str) == (CHOOSE row \in JsonTable : row.text = str).data

(***************************************************************************)
(* retry.py: validate_with_retry                                           *)
(***************************************************************************)
Backtick == "^"                      \* stands for the backquote character
Fence == Backtick \o Backtick \o Backtick
FenceJson == Fence \o "json"

\* faulty variant: only the json-tagged fence is recognised
ExtractJson_JsonFenceOnly(text) ==
    IF Contains(text, FenceJson)
    THEN LET json_start == Find(text, FenceJson, 0) + 7
             json_end == Find(text, Fence, json_start)
         IN  Strip(Slice(text, json_start, json_end))
    ELSE Strip(text)

\* retry.py:72-81, the text handed to json.loads
ExtractJson(text) ==
    IF Contains(text, FenceJson)
    THEN LET json_start == Find(text, FenceJson, 0) + 7
             json_end == Find(text, Fence, json_start)
         IN  Strip(Slice(text, json_start, json_end))
    ELSE IF Contains(text, Fence)
    THEN LET json_start == Find(text, Fence, 0) + 3
             json_end == Find(text, Fence, json_start)
         IN  Strip(Slice(text, json_start, json_end))
    ELSE Strip(text)

\* retry.py:130-151, the helper that does the same on a stripped text
extract_json_from_text(text) ==
    LET stripped == Strip(text)
    IN  IF Contains(stripped, FenceJson)
        THEN LET start == Find(stripped, FenceJson, 0) + 7
                 end == Find(stripped, Fence, start)
             IN  Strip(Slice(stripped, start, end))
        ELSE IF Contains(stripped, Fence)
        THEN LET start == Find(stripped, Fence, 0) + 3
                 end == Find(stripped, Fence, start)
             IN  Strip(Slice(stripped, start, end))
        ELSE stripped

\* retry.py:84-87, the exception the try body raises on text, or NoError
TryError(text) ==
    LET json_str == ExtractJson(text)
    IN  IF ~(\E row \in JsonTable : row.text = json_str) THEN JSONDecodeError(json_str)
        ELSE IF ClaimsExtractionErrors(json_loads(json_str)) # <<>>
             THEN ValidationError(ClaimsExtractionErrors(json_loads(json_str)))
        ELSE NoError

\* retry.py:87, validated_data for a text on which the try body does not raise
ValidatedData(text) == ClaimsExtraction(json_loads(ExtractJson(text)))

\* retry.py:94
ErrorType(err) == IF err.type = "JSONDecodeError" THEN "JSON parsing" ELSE "Schema validation"

\* retry.py:98-112
ErrorMessage(err) ==
    "\n" \o ErrorType(err) \o " error occurred. Please fix the JSON and try again.\n\n"
    \o "Error details:\n" \o err.text \o "\n\n"
    \o "Requirements:\n1. Your response must be valid JSON\n"
    \o "2. It must match this schema exactly: ClaimsExtraction\n"
    \o "3. Check all required fields are present\n"
    \o "4. Ensure all field types are correct (strings, numbers, booleans, etc.)\n"
    \o "5. Validate that numeric fields are in the correct ranges\n\n"
    \o "Please output ONLY the corrected JSON, with no additional text or explanation.\n"

Unbound == "<unbound>"               \* response_text before its first assignment

\* faulty variant: the failed response is not put back into the conversation
Extended_FeedbackOnly(msgs, text, err) ==
    msgs \o <<[role |-> "user", content |-> ErrorMessage(err)]>>

\* retry.py:114-117, messages after the extend
Extended(msgs, text, err) ==
    msgs \o <<[role |-> "assistant", content |-> IF text # Unbound THEN text ELSE ""],
              [role |-> "user", content |-> ErrorMessage(err)]>>

\* faulty variant: range(max_retries) instead of range(max_retries + 1)
Attempts_OneShort(n) == 0..(n - 1)

\* retry.py:57, the values the loop variable takes
Attempts(n) == 0..n

\* faulty variant: messages is the caller's list itself, so the extend reaches it
CallerListAfterExtend_Aliased(caller_list, extended) == extended

\* retry.py:54 and 114: messages is a copy, so extending it to the value
\* `extended` leaves the list object the caller passed in as it was
CallerListAfterExtend(caller_list, extended) == caller_list

\* retry.py:96
MayRetry(k, n) == k < n

\* faulty variant: the loop goes round without advancing its counter
NextAttempt_Stuck(k) == k

\* retry.py:57, the for loop hands out the next value of range(max_retries + 1)
NextAttempt(k) == k + 1

\* faulty variant: the message reports the initial value of last_error
RetryExhaustedError_NoCause(n, err) ==
    [type |-> "RetryExhaustedError",
     text |-> "Failed to get valid ClaimsExtraction after " \o ToStr(n + 1)
              \o " attempts. Last error: " \o NoError.text]

\* retry.py:121-124
RetryExhaustedError(n, err) ==
    [type |-> "RetryExhaustedError",
     text |-> "Failed to get valid ClaimsExtraction after " \o ToStr(n + 1)
              \o " attempts. Last error: " \o err.text]

\* retry.py:127
UnexpectedExhaustedError(err) ==
    [type |-> "RetryExhaustedError",
     text |-> "Unexpected error in retry loop. Last error: " \o err.text]

Returned(v) == [kind |-> "returned", value |-> v]
Raised(err) == [kind |-> "raised", error |-> err]

\* the generation service: response texts and upstream failures
Fenced(str) == FenceJson \o "\n" \o str \o "\n" \o Fence
PlainFenced(str) == Fence \o "\n" \o str \o "\n" \o Fence

Responses == {dumps(OneClaim), Fenced(dumps(TwoClaims)),
              "Here are the claims:\n" \o PlainFenced(dumps(MinimalClaim)),
              "I could not find any statistical claims in this text.",
              dumps(NoClaims), dumps(CountTooHigh), dumps(WithEmptyQuote),
              dumps(WithShortQuote), dumps(DuplicateIds)}

\* the try body's result for each response text, computed once
TryErrorOf == [r \in Responses |-> TryError(r)]
ValidatedDataOf == [r \in {x \in Responses : TryError(x) = NoError} |-> ValidatedData(r)]

UpstreamErrors == {[type |-> "RateLimitError", text |-> "429 rate_limit_error"],
                   [type |-> "APIConnectionError", text |-> "Connection error."],
                   [type |-> "AuthenticationError", text |-> "invalid x-api-key"]}

Prompt == [role |-> "user", content |-> "Extract all statistical and causal claims"]

ExtractMaxRetries == 3               \* claude_client.py:61

\* retry.py:54-57, the state on entering the loop
RetryEntry(n, init_msgs) ==
    /\ max_retries = n
    /\ initial_messages = init_msgs
    /\ messages = init_msgs
    /\ attempt = 0
    /\ response_text = Unbound
    /\ e = NoError
    /\ last_error = NoError
    /\ pc = IF 0 \in Attempts(n) THEN "Drafting" ELSE "Exhausted"
    /\ outcome = IF 0 \in Attempts(n) THEN [kind |-> "running"] ELSE Raised(UnexpectedExhaustedError(NoError))
    /\ requests = <<>>
    /\ responses = <<>>
    /\ errors = <<>>

\* retry.py:60-68, the request returns the text r
Draft(r) ==
    /\ pc = "Drafting"
    /\ requests' = Append(requests, messages)
    /\ responses' = Append(responses, r)
    /\ response_text' = r
    /\ pc' = "Validating"
    /\ UNCHANGED <<max_retries, initial_messages, messages, attempt, e, last_error,
                   outcome, errors>>

\* faulty variant: the except clause also catches the request's own errors
DraftRaises_Caught(err) ==
    /\ pc = "Drafting"
    /\ requests' = Append(requests, messages)
    /\ e' = err
    /\ pc' = "RetryPrompting"
    /\ UNCHANGED <<max_retries, initial_messages, messages, attempt, response_text,
                   last_error, outcome, responses, errors>>

\* retry.py:60, the request raises; nothing in validate_with_retry catches it
DraftRaises(err) ==
    /\ pc = "Drafting"
    /\ requests' = Append(requests, messages)
    /\ outcome' = Raised(err)
    /\ pc' = "Raised"
    /\ UNCHANGED <<max_retries, initial_messages, messages, attempt, response_text, e,
                   last_error, responses, errors>>

\* retry.py:70-92, parse and validate; return, or enter the except clause
Validate ==
    /\ pc = "Validating"
    /\ IF TryErrorOf[response_text] = NoError
       THEN /\ outcome' = Returned(ValidatedDataOf[response_text])
            /\ pc' = "Succeeded"
            /\ e' = e
       ELSE /\ e' = TryErrorOf[response_text]
            /\ pc' = "RetryPrompting"
            /\ outcome' = outcome
    /\ UNCHANGED <<max_retries, initial_messages, messages, attempt, response_text,
                   last_error, requests, responses, errors>>

\* retry.py:92-127, the except clause and the step to the next iteration
RetryPrompt ==
    /\ pc = "RetryPrompting"
    /\ last_error' = e
    /\ errors' = Append(errors, e)
    /\ IF MayRetry(attempt, max_retries)
       THEN /\ messages' = Extended(messages, response_text, e)
            /\ initial_messages' =
                   CallerListAfterExtend(initial_messages, Extended(messages, response_text, e))
            /\ attempt' = NextAttempt(attempt)
            /\ IF NextAttempt(attempt) \in Attempts(max_retries)
               THEN pc' = "Drafting" /\ outcome' = outcome
               ELSE pc' = "Exhausted" /\ outcome' = Raised(UnexpectedExhaustedError(e))
       ELSE /\ outcome' = Raised(RetryExhaustedError(max_retries, e))
            /\ pc' = "Exhausted"
            /\ UNCHANGED <<messages, attempt, initial_messages>>
    /\ UNCHANGED <<max_retries, response_text, e, requests, responses>>

InitRetry ==
    /\ \E n \in 0..MaxRetriesBound : RetryEntry(n, <<Prompt>>)
    /\ stage = "idle" /\ checked = <<>> /\ claim_check_results = <<>> /\ claim_audits = <<>>
    /\ claim = CoffeeClaim /\ checks = <<>>
    /\ claim_data = CoffeeClaim /\ claim_result = Pending
    /\ ReportIdle /\ parked = NotStarted /\ SessionIdle

NextRetry ==
    \/ \E r \in Responses : Draft(r) /\ UNCHANGED <<pipelineVars, ruleVars, schemaVars, reportVars, parked, sessionVars>>
    \/ \E err \in UpstreamErrors : DraftRaises(err) /\ UNCHANGED <<pipelineVars, ruleVars, schemaVars, reportVars, parked, sessionVars>>
    \/ Validate /\ UNCHANGED <<pipelineVars, ruleVars, schemaVars, reportVars, parked, sessionVars>>
    \/ RetryPrompt /\ UNCHANGED <<pipelineVars, ruleVars, schemaVars, reportVars, parked, sessionVars>>

SpecRetry == InitRetry /\ [][NextRetry]_vars

\* validate_with_retry when every request returns a response. The function is
\* one sequential loop with no wait other than the request itself, so a step
\* that can be taken is taken.
NextReturns ==
    \/ \E r \in Responses : Draft(r) /\ UNCHANGED <<pipelineVars, ruleVars, schemaVars, reportVars, parked, sessionVars>>
    \/ Validate /\ UNCHANGED <<pipelineVars, ruleVars, schemaVars, reportVars, parked, sessionVars>>
    \/ RetryPrompt /\ UNCHANGED <<pipelineVars, ruleVars, schemaVars, reportVars, parked, sessionVars>>

SpecReturns == InitRetry /\ [][NextReturns]_vars /\ WF_vars(NextReturns)

(***************************************************************************)
(* The try body of retry.py:68-90 on its own: one response, made of a      *)
(* payload bare or wrapped in a code fence, is parsed and validated.       *)
(***************************************************************************)
\* what the service may put inside or instead of a fence
ParsePayloads ==
    {dumps(d) : d \in JsonObjects}
    \cup {"I could not find any statistical claims in this text.", "",
          "  " \o dumps(OneClaim) \o "\n", "{\"claims\": [", "[]"}

ParseForms == {"bare", "json fence", "plain fence", "prose, json fence", "prose, plain fence",
               "json fence, prose", "json fence on one line", "plain fence on one line"}

\* the response that carries payload p in the given form
Wrap(form, p) ==
    CASE form = "bare" -> p
      [] form = "json fence" -> Fenced(p)
      [] form = "plain fence" -> PlainFenced(p)
      [] form = "prose, json fence" -> "Here are the claims:\n" \o Fenced(p)
      [] form = "prose, plain fence" -> "Here are the claims:\n" \o PlainFenced(p)
      [] form = "json fence, prose" -> Fenced(p) \o "\nLet me know if you need more."
      [] form = "json fence on one line" -> FenceJson \o p \o Fence
      [] form = "plain fence on one line" -> Fence \o " " \o p \o " " \o Fence

ParseResponses == {Wrap(f, p) : f \in ParseForms, p \in ParsePayloads}

\* retry.py:68, the response has arrived in an only attempt
InitParse ==
    /\ max_retries = 0
    /\ initial_messages = <<Prompt>> /\ messages = <<Prompt>>
    /\ attempt = 0
    /\ response_text \in ParseResponses
    /\ e = NoError /\ last_error = NoError
    /\ pc = "Validating"
    /\ outcome = [kind |-> "running"]
    /\ requests = <<<<Prompt>>>>
    /\ responses = <<response_text>>
    /\ errors = <<>>
    /\ stage = "idle" /\ checked = <<>> /\ claim_check_results = <<>> /\ claim_audits = <<>>
    /\ claim = CoffeeClaim /\ checks = <<>>
    /\ claim_data = CoffeeClaim /\ claim_result = Pending
    /\ ReportIdle /\ parked = NotStarted /\ SessionIdle

\* retry.py:70-92, parse and validate; return, or enter the except clause
TryBody ==
    /\ pc = "Validating"
    /\ IF TryError(response_text) = NoError
       THEN /\ outcome' = Returned(ValidatedData(response_text))
            /\ pc' = "Succeeded"
            /\ e' = e
       ELSE /\ e' = TryError(response_text)
            /\ pc' = "RetryPrompting"
            /\ outcome' = outcome
    /\ UNCHANGED <<max_retries, initial_messages, messages, attempt, response_text,
                   last_error, requests, responses, errors, pipelineVars, ruleVars,
                   schemaVars, reportVars, parked, sessionVars>>

NextParse == TryBody

SpecParse == InitParse /\ [][NextParse]_vars

(***************************************************************************)
(* Two validate_with_retry calls made with one initial_messages list. The  *)
(* caller's list is one object, shared; messages, attempt, response_text,  *)
(* e and last_error are locals of a call's own frame. One frame runs at a  *)
(* time; the frame of the other call is parked and Switch exchanges them   *)
(* between any two steps, so the calls interleave in every order,          *)
(* including one wholly after the other.                                   *)
(***************************************************************************)
\* the frame of the running call, with its histories
Frame ==
    [messages |-> messages, attempt |-> attempt, response_text |-> response_text,
     e |-> e, last_error |-> last_error, pc |-> pc, outcome |-> outcome,
     requests |-> requests, responses |-> responses, errors |-> errors]

\* retry.py:54-57, the frame of a call that starts now on the list init_msgs
EntryFrame(n, init_msgs) ==
    [messages |-> init_msgs, attempt |-> 0, response_text |-> Unbound,
     e |-> NoError, last_error |-> NoError,
     pc |-> IF 0 \in Attempts(n) THEN "Drafting" ELSE "Exhausted",
     outcome |-> IF 0 \in Attempts(n) THEN [kind |-> "running"]
                 ELSE Raised(UnexpectedExhaustedError(NoError)),
     requests |-> <<>>, responses |-> <<>>, errors |-> <<>>]

\* the responses the two calls may receive: valid, not JSON, wrong count
CallResponses == {dumps(OneClaim),
                  "I could not find any statistical claims in this text.",
                  dumps(CountTooHigh)}

InitCalls ==
    /\ \E n \in 0..MaxCallRetries : RetryEntry(n, <<Prompt>>)
    /\ stage = "idle" /\ checked = <<>> /\ claim_check_results = <<>> /\ claim_audits = <<>>
    /\ claim = CoffeeClaim /\ checks = <<>>
    /\ claim_data = CoffeeClaim /\ claim_result = Pending
    /\ ReportIdle /\ parked = NotStarted /\ SessionIdle

\* the other call runs next; its first turn is its entry into validate_with_retry
Switch ==
    /\ parked' = Frame
    /\ LET f == IF parked = NotStarted THEN EntryFrame(max_retries, initial_messages)
                ELSE parked
       IN  /\ messages' = f.messages /\ attempt' = f.attempt
           /\ response_text' = f.response_text /\ e' = f.e
           /\ last_error' = f.last_error /\ pc' = f.pc /\ outcome' = f.outcome
           /\ requests' = f.requests /\ responses' = f.responses /\ errors' = f.errors
    /\ UNCHANGED <<max_retries, initial_messages, pipelineVars, ruleVars, schemaVars,
                   reportVars, sessionVars>>

NextCalls ==
    \/ \E r \in CallResponses : Draft(r) /\ UNCHANGED <<pipelineVars, ruleVars, schemaVars, reportVars, parked, sessionVars>>
    \/ \E err \in UpstreamErrors : DraftRaises(err) /\ UNCHANGED <<pipelineVars, ruleVars, schemaVars, reportVars, parked, sessionVars>>
    \/ Validate /\ UNCHANGED <<pipelineVars, ruleVars, schemaVars, reportVars, parked, sessionVars>>
    \/ RetryPrompt /\ UNCHANGED <<pipelineVars, ruleVars, schemaVars, reportVars, parked, sessionVars>>
    \/ Switch

SpecCalls == InitCalls /\ [][NextCalls]_vars

(***************************************************************************)
(* The rules applied to claims: check_claim as called by app.py:321 and    *)
(* by the tests, on every valid Claim over a bounded set of quotes.        *)
(***************************************************************************)
Phrases == {"Coffee", "causes", "RCT", "50%", "n=100", "always", "goodwill",
            "significant", "doubles risk", "1 in 10", "improved", "study"}

ExampleQuotes == {"Coffee drinking causes longevity",
                  "Risk increased from 0.5% to 1% in the treatment group",
                  "Smokers are 3x more likely to develop cancer",
                  "Coffee drinking doubles your risk of heart disease",
                  "Sales increased by 300%",
                  "Symptoms improved significantly",
                  "The study found that participants improved significantly",
                  "The trend will continue to increase",
                  "Treatment improved symptoms compared to placebo",
                  "AI always improves productivity by 300%"}

\* the texts made of at most n phrases separated by spaces
RECURSIVE Sentences(_)
Sentences(n) ==
    IF n <= 1 THEN Phrases
    ELSE Sentences(n - 1) \cup {s \o " " \o p : s \in Sentences(n - 1), p \in Phrases}

\* quotes for the alternatives of the patterns and keywords that Phrases lacks
PatternQuotes == {"Risk is 2.5 times higher", "20 Percent of users agree",
                  "Most people agree", "It is almost over", "fewer deaths occurred",
                  "a rare event among 500 participants"}

Quotes == ExampleQuotes \cup PatternQuotes \cup Sentences(MaxQuoteWords)

\* the Claim objects the rules are run on: every one passes Claim validation
Claims ==
    {Claim(d) : d \in {r \in {RawClaim("c1", q, "statistical", 8, nv) :
                                  q \in Quotes, nv \in {<<>>, <<"50%">>}} :
                          ClaimErrors(r) = <<>>}}

\* the document the analyzer is built on (statistical_checks.py:93); it
\* mentions a sample size
AnalyzerText == "A study of 1,200 participants (n=1200) was run. Results may vary."

InitChecks ==
    /\ claim \in Claims
    /\ checks = <<>>
    /\ RetryEntry(ExtractMaxRetries, <<Prompt>>)
    /\ stage = "idle" /\ checked = <<>> /\ claim_check_results = <<>> /\ claim_audits = <<>>
    /\ claim_data = CoffeeClaim /\ claim_result = Pending
    /\ text_input = AnalyzerText
    /\ text_metrics = Unset /\ summary = None /\ reliability_score = Unset
    /\ shown = NothingShown
    /\ parked = NotStarted /\ SessionIdle

\* analyzer.check_claim(claim)
CheckClaim ==
    /\ checks = <<>>
    /\ checks' = check_claim(claim)
    /\ UNCHANGED <<claim, retryVars, pipelineVars, schemaVars, reportVars, parked, sessionVars>>

NextChecks == CheckClaim

SpecChecks == InitChecks /\ [][NextChecks]_vars

(***************************************************************************)
(* Claim validation on raw claim dicts (schemas.py:10-38, as exercised by  *)
(* tests/test_integration.py:76-117)                                       *)
(***************************************************************************)
IdAlphabet == {"c", "0", "1", "7", "x"}

\* the texts over IdAlphabet of at most n characters
RECURSIVE IdStrings(_)
IdStrings(n) ==
    IF n = 0 THEN {""}
    ELSE IdStrings(n - 1) \cup {s \o a : s \in IdStrings(n - 1), a \in IdAlphabet}

RawQuotes == {"", "Test", "Drugs", "Test claim"}

InitClaim ==
    /\ \E id \in IdStrings(MaxIdLen), q \in RawQuotes :
           claim_data = RawClaim(id, q, "statistical", 8, <<"50%">>)
    /\ claim_result = Pending
    /\ RetryEntry(ExtractMaxRetries, <<Prompt>>)
    /\ stage = "idle" /\ checked = <<>> /\ claim_check_results = <<>> /\ claim_audits = <<>>
    /\ claim = CoffeeClaim /\ checks = <<>>
    /\ ReportIdle /\ parked = NotStarted /\ SessionIdle

\* Claim(**claim_data)
ValidateClaim ==
    /\ claim_result = Pending
    /\ claim_result' = ValidateClaimData(claim_data)
    /\ UNCHANGED <<claim_data, retryVars, pipelineVars, ruleVars, reportVars, parked, sessionVars>>

NextClaim == ValidateClaim

SpecClaim == InitClaim /\ [][NextClaim]_vars

(***************************************************************************)
(* app.py main: one analysis run                                           *)
(***************************************************************************)
\* faulty variant: the severity of every check counts, passed or failed
OverallStatus_AllChecks(cs) ==
    IF \E k \in DOMAIN cs : cs[k].severity = "critical" THEN "critical"
    ELSE IF \E k \in DOMAIN cs : cs[k].severity = "high" THEN "major_issues"
    ELSE IF \E k \in DOMAIN cs : ~cs[k].passed THEN "minor_issues"
    ELSE "clean"

\* app.py:327-337
OverallStatus(cs) ==
    LET failed_checks == SelectSeq(cs, LAMBDA c : ~c.passed)
    IN  IF \E k \in DOMAIN failed_checks : failed_checks[k].severity = "critical" THEN "critical"
        ELSE IF \E k \in DOMAIN failed_checks : failed_checks[k].severity = "high" THEN "major_issues"
        ELSE IF failed_checks # <<>> THEN "minor_issues"
        ELSE "clean"

\* check_claim on the claims of the responses that validate, computed once
PipelineClaims ==
    UNION {{ValidatedDataOf[r].claims[i] : i \in DOMAIN ValidatedDataOf[r].claims} :
               r \in DOMAIN ValidatedDataOf}
CheckClaimOf == [c \in PipelineClaims |-> check_claim(c)]

\* app.py:319-321, the dict built by assigning check_claim(claim) under claim.claim_id, in order
ClaimCheckResults(claims) ==
    [id \in {claims[i].claim_id : i \in DOMAIN claims} |->
        CheckClaimOf[claims[CHOOSE i \in DOMAIN claims :
                                /\ claims[i].claim_id = id
                                /\ \A j \in DOMAIN claims : claims[j].claim_id = id => j <= i]]]

\* app.py:324-344
ClaimAudits(claims, results) ==
    [i \in DOMAIN claims |->
        [claim_id |-> claims[i].claim_id,
         claim_quote |-> claims[i].quote,
         checks_performed |-> results[claims[i].claim_id],
         overall_status |-> OverallStatus(results[claims[i].claim_id])]]

\* sum(len(f(audit)) for audit in claim_audits), app.py:754-758
RECURSIVE SumChecks(_, _)
SumChecks(audits, onlyFailed) ==
    IF audits = <<>> THEN 0
    ELSE Len(IF onlyFailed
             THEN SelectSeq(Head(audits).checks_performed, LAMBDA c : ~c.passed)
             ELSE Head(audits).checks_performed)
         + SumChecks(Tail(audits), onlyFailed)

\* faulty variant: the extreme-language penalty has no cap
ExtremeLanguagePenalty_Uncapped(metrics) == metrics.extreme_language_count * 2

\* app.py:751
ExtremeLanguagePenalty(metrics) == Min(metrics.extreme_language_count * 2, 15)

\* faulty variant: a negative score is mirrored instead of raised to 0
Clamp_Abs(score) ==
    IF score.num < 0 THEN Frac(0 - score.num, score.den) ELSE FracMin(FromInt(100), score)

\* app.py:767
Clamp(score) == FracMax(FromInt(0), FracMin(FromInt(100), score))

\* app.py:729-767
calculate_reliability_score(metrics, audits) ==
    LET start    == FromInt(50)
        density  == FracAdd(start, FracMulInt(metrics.data_density_score, 20))
        vague    == FracSub(density, FracMulInt(metrics.vagueness_score, 15))
        sample   == IF metrics.sample_size_mentioned THEN FracAdd(vague, FromInt(10)) ELSE vague
        extreme  == FracSub(sample, FromInt(ExtremeLanguagePenalty(metrics)))
        total_checks  == SumChecks(audits, FALSE)
        failed_checks == SumChecks(audits, TRUE)
        score    == IF total_checks > 0
                    THEN FracSub(extreme, FracMulInt(Frac(failed_checks, total_checks), 30))
                    ELSE extreme
    IN  Clamp(score)

\* app.py:644-652, in the dict's insertion order
PRED_TO_CHECK ==
    << <<"correlation", "Correlation vs Causation">>,
       <<"sample_size", "Sample Size Disclosure">>,
       <<"extreme_language", "Extreme Language">>,
       <<"base_rate", "Base Rate Neglect">>,
       <<"data_support", "Data Support">>,
       <<"relative_risk", "Relative Risk Without Context">>,
       <<"missing_comparator", "Missing Comparator">> >>

PredictionKeys == {PRED_TO_CHECK[k][1] : k \in DOMAIN PRED_TO_CHECK}

\* app.py:681-685, the key added for one check name: the first whose full name
\* is a substring of it, if any
MappedKeys(check_name) ==
    LET hits == {k \in DOMAIN PRED_TO_CHECK : Contains(check_name, PRED_TO_CHECK[k][2])}
    IN  IF hits = {} THEN {}
        ELSE {PRED_TO_CHECK[CHOOSE k \in hits : \A j \in hits : k <= j][1]}

\* app.py:674-685
ActualIssues(audit) ==
    LET actual_checks == {audit.checks_performed[k].check_name :
                             k \in {j \in DOMAIN audit.checks_performed :
                                        ~audit.checks_performed[j].passed}}
    IN  UNION {MappedKeys(n) : n \in actual_checks}

\* app.py:670-672
PredictedIssues(predictions, claim_id) ==
    LET user_pred == IF claim_id \in DOMAIN predictions THEN predictions[claim_id] ELSE <<>>
    IN  {issue \in DOMAIN user_pred : user_pred[issue]}

\* faulty variant: audits of claims the user did not review are compared too
Reviewed_Always(predictions, claim_id) == TRUE

\* app.py:666
Reviewed(predictions, claim_id) == claim_id \in DOMAIN predictions

\* app.py:654-660, the accumulators before the loop
AccuracyStart ==
    [total_issues |-> 0, true_positives |-> 0, false_positives |-> 0, false_negatives |-> 0,
     per_claim |-> <<>>,
     by_type |-> [issue \in PredictionKeys |-> [caught |-> 0, total |-> 0]]]

\* app.py:662-708, one iteration of the loop over claim_audits
AccuracyStep(acc, predictions, audit) ==
    IF ~Reviewed(predictions, audit.claim_id) THEN acc
    ELSE LET predicted_issues == PredictedIssues(predictions, audit.claim_id)
             actual_issues == ActualIssues(audit)
             caught == predicted_issues \cap actual_issues
             missed == actual_issues \ predicted_issues
             false_pos == predicted_issues \ actual_issues
             entry == [quote |-> audit.claim_quote, predicted |-> predicted_issues,
                       actual |-> actual_issues, caught |-> caught, missed |-> missed,
                       false_positives |-> false_pos]
         IN  [total_issues |-> acc.total_issues + Cardinality(actual_issues),
              true_positives |-> acc.true_positives + Cardinality(caught),
              false_positives |-> acc.false_positives + Cardinality(false_pos),
              false_negatives |-> acc.false_negatives + Cardinality(missed),
              per_claim |-> [id \in DOMAIN acc.per_claim \cup {audit.claim_id} |->
                                IF id = audit.claim_id THEN entry ELSE acc.per_claim[id]],
              by_type |-> [issue \in PredictionKeys |->
                              IF issue \in actual_issues
                              THEN [caught |-> acc.by_type[issue].caught
                                                  + (IF issue \in caught THEN 1 ELSE 0),
                                    total |-> acc.by_type[issue].total + 1]
                              ELSE acc.by_type[issue]]]

RECURSIVE AccuracyLoop(_, _, _)
AccuracyLoop(acc, predictions, audits) ==
    IF audits = <<>> THEN acc
    ELSE AccuracyLoop(AccuracyStep(acc, predictions, Head(audits)), predictions, Tail(audits))

\* app.py:632-726
calculate_prediction_accuracy(predictions, audits) ==
    LET acc == AccuracyLoop(AccuracyStart, predictions, audits)
    IN  [overall_accuracy |-> IF acc.total_issues > 0
                              THEN Frac(acc.true_positives, acc.total_issues)
                              ELSE FromInt(0),
         true_positives |-> acc.true_positives,
         false_positives |-> acc.false_positives,
         false_negatives |-> acc.false_negatives,
         total_issues |-> acc.total_issues,
         per_claim |-> acc.per_claim,
         by_type |-> acc.by_type]

\* the texts pasted into the page (app.py:155); both pass the guard of app.py:280
PipelineTexts == {"Studies show coffee causes cancer", "It may always rain. 50% agree"}
MetricsOf == [t \in PipelineTexts |-> calculate_text_metrics(t)]

\* what generate_audit_summary returns (claude_client.py:90)
SummaryTexts == {"Two claims overstate the evidence."}

\* app.py:614-629, the messages st.error and st.info put on the page for exception err
ErrorDisplay(err) ==
    LET error_type == err.type
        error_msg  == err.text
    IN  IF Contains(error_msg, "API") \/ Contains(Lower(error_msg), "api")
        THEN <<"API Error: Check that your ANTHROPIC_API_KEY is valid in the .env file.",
               "Get your API key from: https://console.anthropic.com/">>
        ELSE IF Contains(Lower(error_msg), "rate") \/ Contains(error_msg, "429")
        THEN <<"Rate Limit: API rate limit exceeded. Please wait a moment and try again.">>
        ELSE IF Contains(error_msg, "No claims") \/ Contains(error_type, "RetryExhausted")
        THEN <<"No Claims Found: The text doesn't contain statistical or causal claims to analyze.",
               "Try adding text with numbers, percentages, or causal statements (e.g., 'causes', 'increases').">>
        ELSE <<"Error (" \o error_type \o "): " \o error_msg,
               "If this persists, check your API key and network connection.">>

\* app.py:280-306: the text passed the guard, the step 1 notice is up and
\* extract_claims has entered validate_with_retry (claude_client.py:52-62)
Init ==
    /\ RetryEntry(ExtractMaxRetries, <<Prompt>>)
    /\ stage = "step1"
    /\ checked = <<>> /\ claim_check_results = <<>> /\ claim_audits = <<>>
    /\ claim = CoffeeClaim /\ checks = <<>>
    /\ claim_data = CoffeeClaim /\ claim_result = Pending
    /\ text_input \in PipelineTexts
    /\ text_metrics = Unset
    /\ summary = None
    /\ reliability_score = Unset
    /\ shown = [NothingShown EXCEPT !.step1 = "info"]
    /\ parked = NotStarted /\ SessionIdle

\* app.py:308-351, after extract_claims returned
Step2 ==
    /\ stage = "step1"
    /\ pc = "Succeeded"
    /\ LET claims == outcome.value.claims
       IN  /\ checked' = claims
           /\ claim_check_results' = ClaimCheckResults(claims)
           /\ claim_audits' = ClaimAudits(claims, ClaimCheckResults(claims))
    /\ text_metrics' = MetricsOf[text_input]
    /\ shown' = [shown EXCEPT !.step1 = "success", !.step2 = "success"]
    /\ stage' = "step2"
    /\ UNCHANGED <<text_input, summary, reliability_score, parked, sessionVars, retryVars, ruleVars,
                   schemaVars>>

\* app.py:353-365 and the display that follows, generate_audit_summary returned s
Step3(s) ==
    /\ stage = "step2"
    /\ summary' = s
    /\ reliability_score' = calculate_reliability_score(text_metrics, claim_audits)
    /\ shown' = [shown EXCEPT !.step3 = "success",
                              !.results = [reliability_score |-> calculate_reliability_score(text_metrics, claim_audits),
                                           text_metrics |-> text_metrics,
                                           claim_audits |-> claim_audits,
                                           summary |-> s]]
    /\ stage' = "done"
    /\ UNCHANGED <<text_input, text_metrics, parked, sessionVars, checked, claim_check_results,
                   claim_audits, retryVars, ruleVars, schemaVars>>

\* app.py:355 raises and app.py:614-629 handles it: steps 1 and 2 stay on the page
Step3Raises(err) ==
    /\ stage = "step2"
    /\ shown' = [shown EXCEPT !.step3 = "info", !.error = ErrorDisplay(err)]
    /\ stage' = "error"
    /\ UNCHANGED <<text_input, text_metrics, summary, reliability_score, parked, sessionVars, checked,
                   claim_check_results, claim_audits, retryVars, ruleVars, schemaVars>>

\* faulty variant: the handler still computes and shows the text metrics
ShowError_WithMetrics ==
    /\ stage = "step1"
    /\ pc \in {"Exhausted", "Raised"}
    /\ text_metrics' = MetricsOf[text_input]
    /\ shown' = [shown EXCEPT !.error = ErrorDisplay(outcome.error),
                              !.results = [text_metrics |-> MetricsOf[text_input]]]
    /\ stage' = "error"
    /\ UNCHANGED <<text_input, summary, reliability_score, parked, sessionVars, checked,
                   claim_check_results, claim_audits, retryVars, ruleVars, schemaVars>>

\* app.py:614-629, extract_claims raised: the exception leaves the try block at app.py:306
ShowError ==
    /\ stage = "step1"
    /\ pc \in {"Exhausted", "Raised"}
    /\ shown' = [shown EXCEPT !.error = ErrorDisplay(outcome.error)]
    /\ stage' = "error"
    /\ UNCHANGED <<text_input, text_metrics, summary, reliability_score, parked, sessionVars, checked,
                   claim_check_results, claim_audits, retryVars, ruleVars, schemaVars>>

Next ==
    \/ \E r \in Responses : Draft(r) /\ UNCHANGED <<pipelineVars, ruleVars, schemaVars, reportVars, parked, sessionVars>>
    \/ \E err \in UpstreamErrors : DraftRaises(err) /\ UNCHANGED <<pipelineVars, ruleVars, schemaVars, reportVars, parked, sessionVars>>
    \/ Validate /\ UNCHANGED <<pipelineVars, ruleVars, schemaVars, reportVars, parked, sessionVars>>
    \/ RetryPrompt /\ UNCHANGED <<pipelineVars, ruleVars, schemaVars, reportVars, parked, sessionVars>>
    \/ Step2
    \/ \E s \in SummaryTexts : Step3(s)
    \/ \E err \in UpstreamErrors : Step3Raises(err)
    \/ ShowError

Spec == Init /\ [][Next]_vars

(***************************************************************************)
(* app.py:324-344 on its own: the audit of one claim, for every list of    *)
(* StatisticalCheck objects the schema admits (any verdict with any of the *)
(* four severities), not only the lists check_claim produces.              *)
(***************************************************************************)
Severities == {"low", "medium", "high", "critical"}

\* the StatisticalCheck objects of schemas.py:56-67, up to their texts
AnyChecks ==
    {StatisticalCheck("Check", p, sev, "explanation", None) : p \in BOOLEAN, sev \in Severities}

\* the lists of at most n such checks
RECURSIVE CheckLists(_)
CheckLists(n) ==
    IF n = 0 THEN {<<>>}
    ELSE CheckLists(n - 1) \cup {Append(cs, c) : cs \in CheckLists(n - 1), c \in AnyChecks}

InitStatus ==
    /\ claim = CoffeeClaim
    /\ checks \in CheckLists(MaxAuditChecks)
    /\ claim_audits = <<>>
    /\ RetryEntry(ExtractMaxRetries, <<Prompt>>)
    /\ stage = "idle" /\ checked = <<>> /\ claim_check_results = <<>>
    /\ claim_data = CoffeeClaim /\ claim_result = Pending
    /\ ReportIdle /\ parked = NotStarted /\ SessionIdle

\* app.py:325-344, one iteration of the loop that builds claim_audits
AppendAudit ==
    /\ claim_audits = <<>>
    /\ claim_audits' = Append(claim_audits,
                              [claim_id |-> claim.claim_id,
                               claim_quote |-> claim.quote,
                               checks_performed |-> checks,
                               overall_status |-> OverallStatus(checks)])
    /\ UNCHANGED <<stage, checked, claim_check_results, retryVars, ruleVars, schemaVars,
                   reportVars, parked, sessionVars>>

NextStatus == AppendAudit

SpecStatus == InitStatus /\ [][NextStatus]_vars

(***************************************************************************)
(* calculate_reliability_score on its own: the TextMetrics objects the     *)
(* schema admits (scores in [0,1], counts >= 0) with lists of audits.      *)
(***************************************************************************)
\* the fractions in [0,1] in lowest terms with denominator at most n
UnitFractions(n) ==
    {Frac(a, b) : a \in 0..n, b \in 1..n} \cap
    {f \in [num : 0..n, den : 1..n] :
        /\ f.num <= f.den
        /\ \A g \in 2..n : ~(f.num % g = 0 /\ f.den % g = 0)}

\* extreme_language_count below, at and past the cap of app.py:751
ExtremeCounts == {0, 1, 7, 8}

ScoreMetrics ==
    {[data_density_score |-> dd, vagueness_score |-> v, extreme_language_count |-> x,
      sample_size_mentioned |-> s, causation_language_count |-> 0] :
        dd \in UnitFractions(MaxDenominator), v \in UnitFractions(MaxDenominator),
        x \in ExtremeCounts, s \in BOOLEAN}

\* an audit whose checks are `failed` failures followed by `total - failed` passes
AuditOf(failed, total) ==
    LET cs == [k \in 1..total |->
                  IF k <= failed
                  THEN StatisticalCheck("Check", FALSE, "high", "explanation", None)
                  ELSE StatisticalCheck("Check", TRUE, "low", "explanation", None)]
    IN  [claim_id |-> "c1", claim_quote |-> "Drugs", checks_performed |-> cs,
         overall_status |-> OverallStatus(cs)]

ScoreAudits ==
    {AuditOf(ft[1], ft[2]) : ft \in {<<0, 0>>, <<0, 1>>, <<1, 1>>, <<1, 2>>, <<3, 7>>, <<7, 7>>}}

\* the lists of at most two audits
ScoreAuditLists == {<<>>} \cup {<<a>> : a \in ScoreAudits} \cup {<<a, b>> : a, b \in ScoreAudits}

InitScore ==
    /\ text_metrics \in ScoreMetrics
    /\ claim_audits \in ScoreAuditLists
    /\ reliability_score = Unset
    /\ text_input = "" /\ summary = None /\ shown = NothingShown
    /\ RetryEntry(ExtractMaxRetries, <<Prompt>>)
    /\ stage = "idle" /\ checked = <<>> /\ claim_check_results = <<>>
    /\ claim = CoffeeClaim /\ checks = <<>>
    /\ claim_data = CoffeeClaim /\ claim_result = Pending
    /\ parked = NotStarted /\ SessionIdle

\* app.py:362
ComputeScore ==
    /\ reliability_score = Unset
    /\ reliability_score' = calculate_reliability_score(text_metrics, claim_audits)
    /\ UNCHANGED <<text_input, text_metrics, summary, shown, pipelineVars, retryVars,
                   ruleVars, schemaVars, parked, sessionVars>>

NextScore == ComputeScore

SpecScore == InitScore /\ [][NextScore]_vars

(***************************************************************************)
(* calculate_text_metrics on its own, for texts of a few words             *)
(***************************************************************************)
TextWords == {"may", "always", "causes", "50%", "n=100", "Studies"}

\* the texts of at most n words, joined by a space or by a full stop and a space
RECURSIVE WordTexts(_)
WordTexts(n) ==
    IF n <= 1 THEN TextWords
    ELSE WordTexts(n - 1)
         \cup {t \o sep \o w : t \in WordTexts(n - 1), sep \in {" ", ". "}, w \in TextWords}

\* texts without words, without sentences, without terminators
EdgeTexts == {"", "   ", "...", " ?! ", "may.may", "It may possibly rain", "Costs rose 3x!"}

MetricTexts == EdgeTexts \cup WordTexts(MaxTextWords)

InitMetrics ==
    /\ text_input \in MetricTexts
    /\ text_metrics = Unset
    /\ summary = None /\ reliability_score = Unset /\ shown = NothingShown
    /\ RetryEntry(ExtractMaxRetries, <<Prompt>>)
    /\ stage = "idle" /\ checked = <<>> /\ claim_check_results = <<>> /\ claim_audits = <<>>
    /\ claim = CoffeeClaim /\ checks = <<>>
    /\ claim_data = CoffeeClaim /\ claim_result = Pending
    /\ parked = NotStarted /\ SessionIdle

\* app.py:315-316
ComputeMetrics ==
    /\ text_metrics = Unset
    /\ text_metrics' = calculate_text_metrics(text_input)
    /\ UNCHANGED <<text_input, summary, reliability_score, shown, pipelineVars, retryVars,
                   ruleVars, schemaVars, parked, sessionVars>>

NextMetrics == ComputeMetrics

SpecMetrics == InitMetrics /\ [][NextMetrics]_vars

(***************************************************************************)
(* calculate_prediction_accuracy on its own: prediction dicts as the page   *)
(* stores them (app.py:259-267) against lists of audits, with ids that are *)
(* predicted and not audited, audited and not predicted, and repeated.     *)
(***************************************************************************)
FlaggedSets == {{}, {"correlation"}, {"sample_size", "base_rate"}, PredictionKeys}

PredictionDict(flagged) == [issue \in PredictionKeys |-> issue \in flagged]

\* a prediction dict, or none, for each of three claim ids
UserPredictions ==
    {[id \in ids |-> PredictionDict(IF id = "c1" THEN f1 ELSE IF id = "c2" THEN f2
                                     ELSE PredictionKeys \ {"correlation"})] :
        ids \in SUBSET {"c1", "c2", "c3"}, f1 \in FlaggedSets,
        f2 \in {{"correlation"}, {"base_rate", "data_support"}}}

FailedSets == {{}, {"Correlation vs Causation"}, {"Sample Size Disclosure", "Extreme Language"},
               {"Base Rate Neglect", "Data Support", "Relative Risk Without Context",
                "Missing Comparator"}}

\* the audit of a claim on which exactly the rules named in failed failed
AuditWithFailures(id, failed) ==
    LET cs == [k \in DOMAIN PRED_TO_CHECK |->
                  IF PRED_TO_CHECK[k][2] \in failed
                  THEN StatisticalCheck(PRED_TO_CHECK[k][2], FALSE, "medium", "explanation",
                                        "suggestion")
                  ELSE StatisticalCheck(PRED_TO_CHECK[k][2], TRUE, "low", "explanation", None)]
    IN  [claim_id |-> id, claim_quote |-> "Quote of " \o id, checks_performed |-> cs,
         overall_status |-> OverallStatus(cs)]

AccuracyAudits == {AuditWithFailures(id, f) : id \in {"c1", "c2"}, f \in FailedSets}

\* the lists of at most n audits
RECURSIVE AccuracyAuditLists(_)
AccuracyAuditLists(n) ==
    IF n = 0 THEN {<<>>}
    ELSE AccuracyAuditLists(n - 1)
         \cup {Append(l, a) : l \in AccuracyAuditLists(n - 1), a \in AccuracyAudits}

InitAccuracy ==
    /\ user_predictions \in UserPredictions
    /\ claim_audits \in AccuracyAuditLists(MaxAccuracyAudits)
    /\ accuracy_metrics = Unset
    /\ show_predictions = TRUE /\ extracted_claims = <<>>
    /\ RetryEntry(ExtractMaxRetries, <<Prompt>>)
    /\ stage = "idle" /\ checked = <<>> /\ claim_check_results = <<>>
    /\ claim = CoffeeClaim /\ checks = <<>>
    /\ claim_data = CoffeeClaim /\ claim_result = Pending
    /\ ReportIdle /\ parked = NotStarted

\* app.py:533
ComputeAccuracy ==
    /\ accuracy_metrics = Unset
    /\ accuracy_metrics' = calculate_prediction_accuracy(user_predictions, claim_audits)
    /\ UNCHANGED <<show_predictions, extracted_claims, user_predictions, retryVars,
                   pipelineVars, ruleVars, schemaVars, reportVars, parked>>

NextAccuracy == ComputeAccuracy

SpecAccuracy == InitAccuracy /\ [][NextAccuracy]_vars

(***************************************************************************)
(* Properties                                                              *)
(***************************************************************************)
ParseOrSchemaErrors == {"JSONDecodeError", "ValidationError"}

\* C1: when every response fails parsing or validation, validate_with_retry
\* raises RetryExhaustedError after exactly max_retries+1 generation requests:
\* it is exhausted only then, and it keeps requesting until then.
C1_ExhaustedAfterExactlyAllAttempts ==
    /\ pc = "Exhausted" =>
           /\ outcome.kind = "raised"
           /\ outcome.error.type = "RetryExhaustedError"
           /\ Len(requests) = max_retries + 1
           /\ Len(errors) = max_retries + 1
    /\ Len(errors) = max_retries + 1 => pc = "Exhausted"
    /\ pc = "Drafting" => Len(requests) = Len(errors) /\ Len(errors) <= max_retries

C1_Witness == pc = "Exhausted" /\ max_retries = 3 /\ Len(requests) = 4 /\ Len(errors) = 4

\* the conversation the claim expects on the k-th request
C2_Conversation(k) ==
    initial_messages \o
    Flatten([j \in 1..(k - 1) |->
                <<[role |-> "assistant", content |-> responses[j]],
                  [role |-> "user", content |-> ErrorMessage(errors[j])]>>])

\* C2: the conversation sent on attempt k+1 is the initial messages followed, in
\* attempt order, by one (failed raw response, feedback echoing that attempt's
\* error) pair per earlier failed attempt; invalid twice then valid with
\* max_retries=3 returns the valid result.
C2_RequestCarriesAllPriorFeedback ==
    /\ \A k \in DOMAIN requests : requests[k] = C2_Conversation(k)
    /\ \A j \in DOMAIN errors :
           /\ errors[j] = TryErrorOf[responses[j]]
           /\ errors[j].type \in ParseOrSchemaErrors
    /\ (max_retries = 3 /\ Len(responses) = 3 /\ Len(errors) = 2 /\ pc = "Succeeded") =>
           /\ outcome = Returned(ValidatedDataOf[responses[3]])
           /\ Len(requests[3]) = Len(initial_messages) + 4

C2_Witness ==
    /\ pc = "Succeeded" /\ max_retries = 3 /\ Len(requests) = 3 /\ Len(errors) = 2
    /\ errors[1] # errors[2]

\* the responses of the service that are valid extractions, with the value each denotes
C3_ValidResponses ==
    {[text |-> dumps(OneClaim), value |-> ClaimsExtraction(OneClaim)],
     [text |-> Fenced(dumps(TwoClaims)), value |-> ClaimsExtraction(TwoClaims)],
     [text |-> "Here are the claims:\n" \o PlainFenced(dumps(MinimalClaim)),
      value |-> ClaimsExtraction(MinimalClaim)],
     [text |-> dumps(DuplicateIds), value |-> ClaimsExtraction(DuplicateIds)]}

\* C3: validate_with_retry returns the validated value of the first response
\* that parses and validates, issues no request after it, and Succeeded is
\* terminal.
C3_FirstValidResponseIsReturned ==
    /\ [](pc = "Succeeded" =>
            /\ \E row \in C3_ValidResponses :
                   row.text = responses[Len(responses)] /\ outcome = Returned(row.value)
            /\ \A j \in 1..(Len(responses) - 1) :
                   responses[j] \notin {row.text : row \in C3_ValidResponses}
            /\ Len(requests) = Len(responses))
    /\ [][pc = "Succeeded" =>
            pc' = "Succeeded" /\ requests' = requests /\ outcome' = outcome]_vars

C3_Witness == stage = "step2" /\ pc = "Succeeded" /\ Len(responses) = 3

\* C4: when the loop ends Exhausted, the RetryExhaustedError raised carries the
\* error of the final attempt, and nothing is returned.
C4_ExhaustedCarriesFinalError ==
    pc = "Exhausted" =>
        /\ outcome.kind = "raised"
        /\ outcome.error.type = "RetryExhaustedError"
        /\ Len(responses) = max_retries + 1
        /\ last_error = TryErrorOf[responses[max_retries + 1]]
        /\ outcome.error.text =
               "Failed to get valid ClaimsExtraction after " \o ToStr(max_retries + 1)
               \o " attempts. Last error: " \o TryErrorOf[responses[max_retries + 1]].text

C4_Witness ==
    /\ pc = "Exhausted" /\ Len(errors) = 4
    /\ errors[4] # errors[1] /\ errors[4] # errors[2] /\ errors[4] # errors[3]

\* C5: an error raised by the generation request itself is not retried: it
\* propagates from the attempt in which it occurs, no further request is made,
\* no feedback is appended, and it does not become RetryExhaustedError.
C5_UpstreamErrorPropagates ==
    /\ [](/\ pc = "Raised" =>
                /\ outcome.kind = "raised"
                /\ outcome.error \in UpstreamErrors
                /\ messages = requests[Len(requests)]
          /\ Len(requests) # Len(responses) => pc = "Raised"
          /\ \A j \in DOMAIN errors : errors[j].type \in ParseOrSchemaErrors
          /\ pc = "Exhausted" => last_error.type \in ParseOrSchemaErrors)
    /\ [][pc = "Raised" =>
            /\ pc' = "Raised" /\ requests' = requests
            /\ messages' = messages /\ outcome' = outcome]_vars

C5_Witness == stage = "error" /\ pc = "Raised" /\ Len(requests) = 3 /\ Len(errors) = 2

C6_BadCountResponses == {dumps(NoClaims), dumps(CountTooHigh)}

\* C6: every value the extraction loop returns has at least one claim and
\* total_claims equal to the number of claims; a response with no claims or a
\* mismatched count is a validation failure and never an empty success.
C6_ReturnedExtractionHasMatchingCount ==
    /\ outcome.kind = "returned" =>
           /\ Len(outcome.value.claims) >= 1
           /\ outcome.value.total_claims = Len(outcome.value.claims)
    /\ pc = "Succeeded" => responses[Len(responses)] \notin C6_BadCountResponses
    /\ \A j \in DOMAIN errors :
           responses[j] \in C6_BadCountResponses => errors[j].type = "ValidationError"
    /\ stage = "step2" => claim_audits # <<>>

C6_Witness ==
    /\ stage = "error" /\ pc = "Exhausted"
    /\ responses[1] = dumps(NoClaims) /\ responses[2] = dumps(CountTooHigh)
    /\ \A j \in DOMAIN responses : responses[j] \in C6_BadCountResponses

\* 'c' followed by a positive integer
C7_IsCPositiveInteger(v) ==
    /\ StartsWith(v, "c")
    /\ IsDigit(Slice(v, 1, Len(v)))
    /\ \E i \in 2..Len(v) : Char(v, i) # "0"

C7_IdAccepted ==
    \/ claim_result.status = "accepted"
    \/ /\ claim_result.status = "rejected"
       /\ \A k \in DOMAIN claim_result.errors : ~StartsWith(claim_result.errors[k], "claim_id:")

\* C7: Claim validation accepts a claim_id if and only if it is 'c' followed by
\* a positive integer; 'c', 'c0' and ids not starting with 'c' are rejected.
C7_ClaimIdIsCPositiveInteger ==
    claim_result # Pending =>
        /\ claim_result.status = "accepted" => C7_IsCPositiveInteger(claim_data.claim_id)
        /\ C7_IsCPositiveInteger(claim_data.claim_id) => C7_IdAccepted

C8_ShortQuoteResponses == {dumps(WithEmptyQuote), dumps(WithShortQuote)}

\* C8: a claim whose quote is empty or shorter than the minimum length is
\* rejected by the schema before rule evaluation: every claim passed to
\* check_claim has a quote of at least the minimum length.
C8_CheckedClaimsHaveQuote ==
    /\ \A k \in DOMAIN checked : Len(checked[k].quote) >= QuoteMinLength
    /\ \A k \in DOMAIN claim_audits : Len(claim_audits[k].claim_quote) >= QuoteMinLength
    /\ pc = "Succeeded" => responses[Len(responses)] \notin C8_ShortQuoteResponses

C8_Witness ==
    /\ stage = "step2"
    /\ responses[1] = dumps(WithEmptyQuote)
    /\ \E k \in DOMAIN checked : Len(checked[k].quote) = QuoteMinLength

RuleNames == <<"Correlation vs Causation", "Sample Size Disclosure", "Extreme Language",
               "Base Rate Neglect", "Data Support", "Relative Risk Without Context",
               "Missing Comparator">>

\* C9: check_claim returns exactly seven checks, in the fixed rule order,
\* whichever rules pass or fail.
C9_SevenChecksInOrder ==
    checks # <<>> =>
        /\ Len(checks) = 7
        /\ \A k \in 1..7 : checks[k].check_name = RuleNames[k]

C9_Witness ==
    /\ Len(checks) = 7
    /\ ~checks[1].passed /\ checks[5].passed /\ ~checks[6].passed /\ checks[7].passed

\* C10: a passing check has severity low, a failing check has severity medium
\* or high, and severity critical is never emitted.
C10_SeverityMatchesVerdict ==
    \A k \in DOMAIN checks :
        /\ checks[k].passed => checks[k].severity = "low"
        /\ ~checks[k].passed => checks[k].severity \in {"medium", "high"}
        /\ checks[k].severity # "critical"

C10_Witness ==
    /\ \E k \in DOMAIN checks : ~checks[k].passed /\ checks[k].severity = "high"
    /\ \E k \in DOMAIN checks : ~checks[k].passed /\ checks[k].severity = "medium"
    /\ \E k \in DOMAIN checks : checks[k].passed

\* the status the tie-break order critical > high > any failure > clean gives
C11_Status(cs) ==
    LET failedSeverities == {cs[k].severity : k \in {j \in DOMAIN cs : ~cs[j].passed}}
    IN  CASE "critical" \in failedSeverities -> "critical"
          [] "critical" \notin failedSeverities /\ "high" \in failedSeverities -> "major_issues"
          [] failedSeverities # {} /\ failedSeverities \cap {"critical", "high"} = {} -> "minor_issues"
          [] failedSeverities = {} -> "clean"

\* cs with the severity of every passed check replaced by sev
C11_PassedAs(cs, sev) ==
    [k \in DOMAIN cs |-> IF cs[k].passed THEN [cs[k] EXCEPT !.severity = sev] ELSE cs[k]]

\* C11: the overall_status of every ClaimAudit is determined by its
\* checks_performed alone: critical if a failed check is critical, else
\* major_issues if a failed check is high, else minor_issues if any check
\* failed, else clean; the severity of a passed check does not matter.
C11_StatusFollowsFailedChecks ==
    \A i \in DOMAIN claim_audits :
        LET a == claim_audits[i]
        IN  /\ a.overall_status = C11_Status(a.checks_performed)
            /\ \A sev \in Severities :
                   a.overall_status = C11_Status(C11_PassedAs(a.checks_performed, sev))

C11_Witness ==
    \E i \in DOMAIN claim_audits :
        LET cs == claim_audits[i].checks_performed
        IN  /\ \E k \in DOMAIN cs : cs[k].passed /\ cs[k].severity = "critical"
            /\ \E k \in DOMAIN cs : ~cs[k].passed /\ cs[k].severity = "medium"
            /\ claim_audits[i].overall_status = "minor_issues"

\* the checks of a list of audits that satisfy the test keep
C12_Count(audits, keep(_)) ==
    Cardinality({ik \in UNION {{<<i, k>> : k \in DOMAIN audits[i].checks_performed} :
                                   i \in DOMAIN audits} :
                     keep(audits[ik[1]].checks_performed[ik[2]])})

\* 50 + 20*density - 15*vagueness + 10*[sample] - min(2*extreme, 15) - 30*failed/total,
\* as one fraction
C12_Raw(metrics, audits) ==
    LET dd == metrics.data_density_score
        v  == metrics.vagueness_score
        total  == C12_Count(audits, LAMBDA c : TRUE)
        failed == C12_Count(audits, LAMBDA c : ~c.passed)
        t  == IF total = 0 THEN 1 ELSE total
        capped == IF 2 * metrics.extreme_language_count < 15
                  THEN 2 * metrics.extreme_language_count ELSE 15
        flat == 50 + (IF metrics.sample_size_mentioned THEN 10 ELSE 0) - capped
    IN  Frac(flat * dd.den * v.den * t + 20 * dd.num * v.den * t
                 - 15 * v.num * dd.den * t - 30 * failed * dd.den * v.den,
             dd.den * v.den * t)

\* C12: calculate_reliability_score returns 50 + 20*data_density
\* - 15*vagueness + (10 if a sample size is mentioned) - min(2*extreme, 15)
\* - 30*failed/total, failed and total summed over all audits and the last
\* term left out when there are no checks, clamped to [0,100]; the result
\* always lies in [0,100].
C12_ScoreIsClampedFormula ==
    reliability_score # Unset =>
        LET raw == C12_Raw(text_metrics, claim_audits)
        IN  /\ 0 <= reliability_score.num
            /\ reliability_score.num <= 100 * reliability_score.den
            /\ raw.num < 0 => reliability_score.num = 0
            /\ raw.num > 100 * raw.den => reliability_score.num = 100 * reliability_score.den
            /\ (0 <= raw.num /\ raw.num <= 100 * raw.den) => FracEq(reliability_score, raw)

\* two audits of different length, more than seven extreme words, a score inside (0,100)
C12_Witness ==
    /\ reliability_score # Unset
    /\ Len(claim_audits) = 2
    /\ Len(claim_audits[1].checks_performed) # Len(claim_audits[2].checks_performed)
    /\ text_metrics.extreme_language_count = 8
    /\ reliability_score.num > 0

\* failed checks over all checks of a list of audits, 0 when there are no checks
C13_FailedRatio(audits) ==
    LET total  == C12_Count(audits, LAMBDA c : TRUE)
        failed == C12_Count(audits, LAMBDA c : ~c.passed)
    IN  IF total = 0 THEN Frac(0, 1) ELSE Frac(failed, total)

\* C13: with all other inputs fixed, the reliability score does not decrease
\* when data_density_score grows or a sample size becomes mentioned, and does
\* not increase when vagueness_score, extreme_language_count or the ratio of
\* failed checks grows, also at the clamp boundaries and past the cap on the
\* extreme-language penalty.
C13_ScoreIsMonotone ==
    reliability_score # Unset =>
        /\ \A d \in UnitFractions(MaxDenominator) :
               FracLeq(text_metrics.data_density_score, d) =>
                   FracLeq(reliability_score,
                           calculate_reliability_score(
                               [text_metrics EXCEPT !.data_density_score = d], claim_audits))
        /\ ~text_metrics.sample_size_mentioned =>
               FracLeq(reliability_score,
                       calculate_reliability_score(
                           [text_metrics EXCEPT !.sample_size_mentioned = TRUE], claim_audits))
        /\ \A v \in UnitFractions(MaxDenominator) :
               FracLeq(text_metrics.vagueness_score, v) =>
                   FracLeq(calculate_reliability_score(
                               [text_metrics EXCEPT !.vagueness_score = v], claim_audits),
                           reliability_score)
        /\ \A x \in ExtremeCounts :
               text_metrics.extreme_language_count <= x =>
                   FracLeq(calculate_reliability_score(
                               [text_metrics EXCEPT !.extreme_language_count = x], claim_audits),
                           reliability_score)
        /\ \A audits \in ScoreAuditLists :
               FracLeq(C13_FailedRatio(claim_audits), C13_FailedRatio(audits)) =>
                   FracLeq(calculate_reliability_score(text_metrics, audits), reliability_score)

\* a score held at the lower clamp, with the extreme-language penalty past its cap
C13_Witness ==
    /\ reliability_score # Unset
    /\ reliability_score.num = 0
    /\ C12_Raw(text_metrics, claim_audits).num < 0
    /\ text_metrics.extreme_language_count = 8
    /\ text_metrics.data_density_score.num = 0

\* the word or phrase w occurs in text t, not inside a longer word
WordIn(w, t) ==
    \E i \in 1..(Len(t) - Len(w) + 1) :
        /\ SubSeq(t, i, i + Len(w) - 1) = w
        /\ ~IsWordAt(t, i - 1)
        /\ ~IsWordAt(t, i + Len(w))

AnyWordIn(ws, t) == \E w \in ws : WordIn(w, t)

\* the causal-relation words, each with its optional -s
C14_CausalWords ==
    {"caused by", "lead to", "leads to", "result in", "results in", "due to",
     "because of", "therefore", "thus"}
    \cup UNION {{w, w \o "s"} :
                   w \in {"cause", "make", "force", "produce", "create", "increase",
                          "decrease", "improve", "worsen", "cure", "boost", "reduce",
                          "raise", "lower", "enhance", "prevent", "trigger", "enable",
                          "disable"}}

C14_EvidenceMarkers == {"randomized", "controlled trial", "rct", "experiment", "intervention"}

\* C14: Correlation vs Causation fails, with severity high, exactly when the
\* quote has a causal-relation word and none of the experimental-evidence
\* markers randomized, controlled trial, RCT, experiment, intervention (in
\* any letter case); 'Coffee drinking causes longevity' fails with high.
C14_CausationFailsWithoutEvidence ==
    checks # <<>> =>
        LET quote_lower == Lower(claim.quote)
            causal == AnyWordIn(C14_CausalWords, quote_lower)
            marker == AnyWordIn(C14_EvidenceMarkers, quote_lower)
        IN  /\ ~checks[1].passed <=> (causal /\ ~marker)
            /\ ~checks[1].passed => checks[1].severity = "high"
            /\ claim.quote = "Coffee drinking causes longevity" =>
                   ~checks[1].passed /\ checks[1].severity = "high"

\* a causal word whose failure an evidence marker suppresses
C14_Witness ==
    /\ checks # <<>>
    /\ AnyWordIn(C14_CausalWords, Lower(claim.quote))
    /\ WordIn("rct", Lower(claim.quote))
    /\ checks[1].passed

C15_RiskWords ==
    {"risk", "chance", "likely", "likelihood", "probability", "odds", "more likely", "hazard"}

\* C15: Relative Risk Without Context fails, with severity high, exactly when
\* the quote has a risk-multiplier pattern and a risk word and no
\* absolute-risk context; otherwise it passes. The two relative-risk examples
\* of the tests fail with high, the 'from 0.5% to 1%' example passes.
C15_RelativeRiskNeedsContext ==
    checks # <<>> =>
        LET quote_lower == Lower(claim.quote)
            multiplier == AnySearch(RISK_MULTIPLIER_PATTERNS, quote_lower)
            risk == AnyWordIn(C15_RiskWords, quote_lower)
            absolute == Search(RiskAbsolutePattern, quote_lower)
        IN  /\ ~checks[6].passed <=> (multiplier /\ risk /\ ~absolute)
            /\ ~checks[6].passed => checks[6].severity = "high"
            /\ claim.quote \in {"Smokers are 3x more likely to develop cancer",
                                "Coffee drinking doubles your risk of heart disease"} =>
                   ~checks[6].passed /\ checks[6].severity = "high"
            /\ claim.quote = "Risk increased from 0.5% to 1% in the treatment group" =>
                   checks[6].passed

\* both gates are present and absolute context makes the rule pass
C15_Witness ==
    /\ checks # <<>>
    /\ AnySearch(RISK_MULTIPLIER_PATTERNS, Lower(claim.quote))
    /\ AnyWordIn(C15_RiskWords, Lower(claim.quote))
    /\ WordIn("1 in 10", Lower(claim.quote))
    /\ checks[6].passed

C16_ResearchMarkers ==
    {"study", "research", "trial", "test", "participant", "participants", "subject", "subjects"}

\* C16: Missing Comparator fails exactly when the quote has an effect word, no
\* explicit comparator word and no implicit comparator; the failure is high
\* when the quote has a research-context marker and medium otherwise; with no
\* effect word the rule passes. 'Sales increased by 300%' passes, 'Symptoms
\* improved significantly' fails with medium, 'The study found that
\* participants improved significantly' fails with high.
C16_ComparatorGatedOnEffect ==
    checks # <<>> =>
        LET quote_lower == Lower(claim.quote)
            effect == AnySearch(EFFECT_WORDS, quote_lower)
            explicit == AnySearch(COMPARATOR_WORDS, quote_lower)
            implicit == Search(ImplicitComparatorPattern, quote_lower)
            research == AnyWordIn(C16_ResearchMarkers, quote_lower)
        IN  /\ ~checks[7].passed <=> (effect /\ ~explicit /\ ~implicit)
            /\ ~checks[7].passed =>
                   checks[7].severity = IF research THEN "high" ELSE "medium"
            /\ ~effect => checks[7].passed
            /\ claim.quote = "Sales increased by 300%" => checks[7].passed
            /\ claim.quote = "Symptoms improved significantly" =>
                   ~checks[7].passed /\ checks[7].severity = "medium"
            /\ claim.quote = "The study found that participants improved significantly" =>
                   ~checks[7].passed /\ checks[7].severity = "high"

\* an effect word in a research context, with nothing to compare to
C16_Witness ==
    /\ checks # <<>>
    /\ WordIn("improved", Lower(claim.quote))
    /\ WordIn("study", Lower(claim.quote))
    /\ ~checks[7].passed /\ checks[7].severity = "high"

\* the extreme words the patterns of EXTREME_WORDS match in a lower-case text
C17_MatchedWords(quote_lower) ==
    {Group(EXTREME_WORDS[k], quote_lower) :
         k \in {j \in DOMAIN EXTREME_WORDS : Search(EXTREME_WORDS[j], quote_lower)}}

\* C17: Extreme Language fails exactly when an extreme-word pattern matches
\* the quote, and the failure is high exactly when one of will, cure,
\* guarantee, must (with its ending) is among the matched words, else medium.
C17_ExtremeSeverityFollowsMatches ==
    checks # <<>> =>
        LET matched == C17_MatchedWords(Lower(claim.quote))
            highImpact == \E m \in matched, k \in DOMAIN HighImpactWords :
                              StartsWith(m, HighImpactWords[k])
        IN  /\ ~checks[3].passed <=> matched # {}
            /\ ~checks[3].passed =>
                   checks[3].severity = IF highImpact THEN "high" ELSE "medium"

\* C18: for every text, also an empty one, one without sentence terminators
\* and one without words, calculate_text_metrics returns a TextMetrics (it
\* does not fail) whose data_density_score and vagueness_score lie in [0,1]
\* and whose two counts are not negative; the data density is 0 when the text
\* has no sentence and the vagueness is 0 when it has no word.
C18_MetricsInRange ==
    text_metrics # Unset =>
        LET chars == {Char(text_input, i) : i \in 1..Len(text_input)}
        IN  /\ "raised" \notin DOMAIN text_metrics
            /\ FracLeq(FromInt(0), text_metrics.data_density_score)
            /\ FracLeq(text_metrics.data_density_score, FromInt(1))
            /\ FracLeq(FromInt(0), text_metrics.vagueness_score)
            /\ FracLeq(text_metrics.vagueness_score, FromInt(1))
            /\ text_metrics.extreme_language_count >= 0
            /\ text_metrics.causation_language_count >= 0
            /\ chars \subseteq (Whitespace \cup SentenceEnds) =>
                   text_metrics.data_density_score.num = 0
            /\ chars \subseteq Whitespace => text_metrics.vagueness_score.num = 0

\* hedge words above a tenth of the words, some sentences with numbers and some without
C18_Witness ==
    /\ text_metrics # Unset
    /\ "raised" \notin DOMAIN text_metrics
    /\ FracEq(text_metrics.vagueness_score, FromInt(1))
    /\ FracEq(text_metrics.data_density_score, Frac(1, 2))

\* C19: rule evaluation, text metrics, summary, score and result display happen
\* only after extraction has Succeeded; when extract_claims fails, nothing of
\* the report is produced or shown and the page carries an error message.
C19_NothingProduced ==
    /\ text_metrics = Unset
    /\ checked = <<>> /\ claim_check_results = <<>> /\ claim_audits = <<>>
    /\ summary = None
    /\ reliability_score = Unset
    /\ shown.step2 = "empty" /\ shown.step3 = "empty" /\ shown.results = Unset
C19_ReportOnlyAfterExtraction ==
    /\ pc # "Succeeded" => C19_NothingProduced
    /\ (stage = "error" /\ pc \in {"Exhausted", "Raised"}) =>
           /\ C19_NothingProduced
           /\ shown.error # <<>>
           /\ \E k \in {"API Error", "Rate Limit", "No Claims Found", "Error ("} :
                  SubSeq(shown.error[1], 1, Len(k)) = k
C19_Witness ==
    /\ stage = "error" /\ pc = "Exhausted" /\ Len(requests) = ExtractMaxRetries + 1
    /\ shown.error # <<>>

\* the conversation a call with frame f should send on its k-th request: the
\* caller's prompt and the call's own failed responses with their feedback
C20_OwnConversation(f, k) ==
    <<Prompt>> \o
    Flatten([j \in 1..(k - 1) |->
                <<[role |-> "assistant", content |-> f.responses[j]],
                  [role |-> "user", content |-> ErrorMessage(f.errors[j])]>>])

C20_FrameIsLocal(f) ==
    /\ \A k \in DOMAIN f.requests : f.requests[k] = C20_OwnConversation(f, k)
    /\ f.messages = C20_OwnConversation(f, f.attempt + 1)
    /\ f.attempt = Len(f.errors) - (IF f.pc = "Exhausted" THEN 1 ELSE 0)
    /\ Len(f.requests) <= max_retries + 1
    /\ f.pc = "Exhausted" <=> Len(f.errors) = max_retries + 1

\* C20: two validate_with_retry calls started from one initial_messages list, in
\* any interleaving, never see each other's failed responses or feedback, each
\* counts its own attempts, and the caller's list is unchanged throughout,
\* whether a call succeeds or is exhausted.
C20_CallsAreIsolated ==
    /\ initial_messages = <<Prompt>>
    /\ C20_FrameIsLocal(Frame)
    /\ parked # NotStarted => C20_FrameIsLocal(parked)

C20_Witness ==
    /\ parked # NotStarted
    /\ pc = "Exhausted" /\ Len(errors) = 2
    /\ parked.pc = "Succeeded" /\ Len(parked.errors) = 1
    /\ parked.responses[1] # responses[1]
    /\ initial_messages = <<Prompt>>

\* C21: whatever the responses, validate_with_retry issues at most
\* max_retries+1 generation requests (at most 4 in extract_claims) and, when
\* every request returns, ends in exactly one of Succeeded or Exhausted and
\* stays there.
C21_TerminatesWithinBudget ==
    /\ [](Len(requests) <= max_retries + 1)
    /\ [](max_retries = ExtractMaxRetries => Len(requests) <= 4)
    /\ <>(pc \in {"Succeeded", "Exhausted"})
    /\ [](pc = "Succeeded" => [](pc = "Succeeded" /\ outcome.kind = "returned"))
    /\ [](pc = "Exhausted" => [](pc = "Exhausted" /\ outcome.kind = "raised"))

C21_Witness ==
    /\ pc = "Succeeded" /\ max_retries = ExtractMaxRetries
    /\ Len(requests) = max_retries + 1 /\ Len(errors) = max_retries

\* the quote holds a percentage or numeric-times pattern, or the claim lists a
\* numerical value
C22_Applicable(c) ==
    Search(HasNumbersPattern, Lower(c.quote)) \/ c.numerical_values # <<>>

C22_SampleSizeInQuote(c) ==
    \E k \in DOMAIN SAMPLE_SIZE_PATTERNS : SearchIgnoreCase(SAMPLE_SIZE_PATTERNS[k], c.quote)

C23_Keywords == {"significant", "substantial", "large", "small", "majority", "minority",
                 "most", "few", "many", "rare", "common"}

C23_HasKeyword(q) ==
    \E w \in C23_Keywords :
        \E i \in 1..(Len(q) - Len(w) + 1) : Lower(SubSeq(q, i, i + Len(w) - 1)) = w

\* C23: Data Support fails, with severity medium, exactly when the quote
\* contains a quantitative-hedge keyword and numerical_values is empty; a claim
\* with a numerical value never fails it.
C23_DataSupportNeedsNumbers ==
    checks # <<>> =>
        LET c == checks[5]
        IN  /\ c.check_name = "Data Support"
            /\ ~c.passed <=> (C23_HasKeyword(claim.quote) /\ claim.numerical_values = <<>>)
            /\ ~c.passed => c.severity = "medium"
            /\ claim.numerical_values # <<>> => c.passed
            /\ (claim.quote = "Most people agree" /\ claim.numerical_values = <<>>) => ~c.passed
            /\ (claim.quote = "Coffee causes") => c.passed

C23_Witness ==
    /\ checks # <<>> /\ ~checks[5].passed
    /\ claim.quote = "Symptoms improved significantly"

\* what validating the payload p itself gives: the value, or the kind of failure
C24_PayloadOutcome(p) ==
    LET str == Strip(p)
    IN  IF ~(\E row \in JsonTable : row.text = str) THEN "JSONDecodeError"
        ELSE LET data == (CHOOSE row \in JsonTable : row.text = str).data
             IN  IF ClaimsExtractionErrors(data) # <<>> THEN "ValidationError"
                 ELSE ClaimsExtraction(data)

\* C24: a response that wraps a payload in a json or plain fence is validated
\* as the text between the fences, a response without a fence as the whole
\* response, and the fenced and bare forms of one payload have the same outcome
\* (the same validated value or the same kind of failure).
C24_FencedAndBareAgree ==
    \A f \in ParseForms, p \in ParsePayloads :
        (response_text = Wrap(f, p) /\ pc # "Validating") =>
            /\ extract_json_from_text(response_text) = Strip(p)
            /\ IF pc = "Succeeded"
               THEN outcome = Returned(C24_PayloadOutcome(p))
               ELSE e.type = C24_PayloadOutcome(p)

\* the prediction key of each rule name
C25_KeyOf ==
    [n \in {"Correlation vs Causation", "Sample Size Disclosure", "Extreme Language",
            "Base Rate Neglect", "Data Support", "Relative Risk Without Context",
            "Missing Comparator"} |->
        CASE n = "Correlation vs Causation" -> "correlation"
          [] n = "Sample Size Disclosure" -> "sample_size"
          [] n = "Extreme Language" -> "extreme_language"
          [] n = "Base Rate Neglect" -> "base_rate"
          [] n = "Data Support" -> "data_support"
          [] n = "Relative Risk Without Context" -> "relative_risk"
          [] n = "Missing Comparator" -> "missing_comparator"]

C25_Actual(audit) ==
    {C25_KeyOf[audit.checks_performed[k].check_name] :
        k \in {j \in DOMAIN audit.checks_performed : ~audit.checks_performed[j].passed}}

C25_Predicted(id) == {issue \in DOMAIN user_predictions[id] : user_predictions[id][issue]}

RECURSIVE C25_Sum(_)
C25_Sum(ns) == IF ns = <<>> THEN 0 ELSE Head(ns) + C25_Sum(Tail(ns))

\* the sum, over the audits that have a prediction entry, of the size of kind
C25_Total(kind) ==
    C25_Sum([i \in DOMAIN claim_audits |->
                LET id == claim_audits[i].claim_id
                IN  IF id \notin DOMAIN user_predictions THEN 0
                    ELSE LET p == C25_Predicted(id)
                             a == C25_Actual(claim_audits[i])
                         IN  CASE kind = "actual" -> Cardinality(a)
                               [] kind = "caught" -> Cardinality(p \cap a)
                               [] kind = "missed" -> Cardinality(a \ p)
                               [] kind = "false_pos" -> Cardinality(p \ a)])

\* C25: calculate_prediction_accuracy compares, for each audit whose claim id
\* has a prediction entry, the flagged keys with the keys of the failed checks
\* (caught, missed, false positives); true_positives + false_negatives =
\* total_issues; overall_accuracy = true_positives / total_issues, 0 when there
\* is no issue, always in [0,1]; audits without an entry add to no total.
C25_AccuracyCountsReviewedClaims ==
    accuracy_metrics # Unset =>
        LET m == accuracy_metrics
        IN  /\ m.total_issues = C25_Total("actual")
            /\ m.true_positives = C25_Total("caught")
            /\ m.false_negatives = C25_Total("missed")
            /\ m.false_positives = C25_Total("false_pos")
            /\ m.true_positives + m.false_negatives = m.total_issues
            /\ IF m.total_issues = 0 THEN FracEq(m.overall_accuracy, FromInt(0))
               ELSE FracEq(m.overall_accuracy, Frac(m.true_positives, m.total_issues))
            /\ FracLeq(FromInt(0), m.overall_accuracy) /\ FracLeq(m.overall_accuracy, FromInt(1))
            /\ DOMAIN m.per_claim =
                   {claim_audits[i].claim_id : i \in DOMAIN claim_audits} \cap DOMAIN user_predictions
            /\ \A i \in DOMAIN claim_audits :
                   LET id == claim_audits[i].claim_id
                   IN  (/\ id \in DOMAIN user_predictions
                        /\ \A j \in DOMAIN claim_audits : claim_audits[j].claim_id = id => j <= i) =>
                           /\ m.per_claim[id].actual = C25_Actual(claim_audits[i])
                           /\ m.per_claim[id].predicted = C25_Predicted(id)
                           /\ m.per_claim[id].caught = C25_Predicted(id) \cap C25_Actual(claim_audits[i])
                           /\ m.per_claim[id].missed = C25_Actual(claim_audits[i]) \ C25_Predicted(id)
                           /\ m.per_claim[id].false_positives =
                                  C25_Predicted(id) \ C25_Actual(claim_audits[i])

C25_Witness ==
    /\ accuracy_metrics # Unset
    /\ Len(claim_audits) = 2 /\ claim_audits[1].claim_id = "c1" /\ claim_audits[2].claim_id = "c2"
    /\ DOMAIN user_predictions = {"c1", "c3"}
    /\ C25_Actual(claim_audits[2]) # {}
    /\ accuracy_metrics.true_positives = 1 /\ accuracy_metrics.false_negatives = 1
    /\ accuracy_metrics.false_positives = 1

\* C26: in every ClaimsExtraction the validation loop accepts, the i-th claim
\* has id c<i>, so no two claims of one extraction share an id.
C26_IdsAreSequenceOrdered ==
    pc = "Succeeded" =>
        LET claims == outcome.value.claims
        IN  /\ \A i \in DOMAIN claims : claims[i].claim_id = "c" \o ToStr(i)
            /\ \A i, j \in DOMAIN claims : claims[i].claim_id = claims[j].claim_id => i = j

\* ---------------------------------------------------------------------------
\* Repeated check_claim calls: analyzers are built on a document
\* (statistical_checks.py:86-94) and check_claim is called on them with claims
\* that differ in every field (statistical_checks.py:198-231).
\* ---------------------------------------------------------------------------

\* the documents analyzers are built on: one mentions a sample size and a
\* trial, the other is empty
AnalyzerDocuments == {AnalyzerText, ""}

AnalyzerQuotes == {"Coffee drinking causes longevity", "Sales increased by 300%",
                   "Most people agree", "Risk is 2.5 times higher"}

\* the fields of a claim that are not its quote or its numerical_values
OtherFields == {[claim_id |-> "c1", claim_type |-> "statistical", confidence |-> 8,
                 variables |-> <<>>],
                [claim_id |-> "c2", claim_type |-> "causal", confidence |-> 3,
                 variables |-> <<"coffee", "longevity">>],
                [claim_id |-> "c10", claim_type |-> "absolute", confidence |-> 10,
                 variables |-> <<"sales">>]}

AnalyzerClaims ==
    {Claim([claim_id |-> o.claim_id, quote |-> q, claim_type |-> o.claim_type,
            confidence |-> o.confidence, variables |-> o.variables,
            numerical_values |-> nv]) :
         o \in OtherFields, q \in AnalyzerQuotes, nv \in {<<>>, <<"50%">>}}

\* check_claim on each of these claims, computed once
AnalyzerCheckClaimOf == [c \in AnalyzerClaims |-> check_claim(c)]

InitAnalyzer ==
    /\ text_input \in AnalyzerDocuments
    /\ claim = Unset /\ checks = <<>>
    /\ checked = <<>>
    /\ RetryEntry(ExtractMaxRetries, <<Prompt>>)
    /\ stage = "idle" /\ claim_check_results = <<>> /\ claim_audits = <<>>
    /\ claim_data = CoffeeClaim /\ claim_result = Pending
    /\ text_metrics = Unset /\ summary = None /\ reliability_score = Unset
    /\ shown = NothingShown
    /\ parked = NotStarted /\ SessionIdle

\* analyzer = StatisticalAnalyzer(text): the calls that follow are made on an
\* analyzer of another document
NewAnalyzer(text) ==
    /\ Len(checked) < MaxAnalyzerCalls
    /\ text # text_input
    /\ text_input' = text
    /\ UNCHANGED <<claim, checks, checked, stage, claim_check_results, claim_audits,
                   text_metrics, summary, reliability_score, shown, parked,
                   sessionVars, retryVars, schemaVars>>

\* analyzer.check_claim(c); checked records each call: the analyzer's document,
\* the claim passed and the list returned
CallCheckClaim(c) ==
    /\ Len(checked) < MaxAnalyzerCalls
    /\ claim' = c
    /\ checks' = AnalyzerCheckClaimOf[c]
    /\ checked' = Append(checked, [text |-> text_input, claim |-> c,
                                   returned |-> AnalyzerCheckClaimOf[c]])
    /\ UNCHANGED <<text_input, stage, claim_check_results, claim_audits,
                   text_metrics, summary, reliability_score, shown, parked,
                   sessionVars, retryVars, schemaVars>>

NextAnalyzer ==
    \/ \E text \in AnalyzerDocuments : NewAnalyzer(text)
    \/ \E c \in AnalyzerClaims : CallCheckClaim(c)

SpecAnalyzer == InitAnalyzer /\ [][NextAnalyzer]_vars

C28_AuditsCarryOwnChecks ==
    claim_audits # <<>> =>
        /\ Len(claim_audits) = Len(checked)
        /\ \A i \in DOMAIN claim_audits :
               /\ claim_audits[i].claim_id = checked[i].claim_id
               /\ claim_audits[i].claim_quote = checked[i].quote
               /\ claim_audits[i].checks_performed = check_claim(checked[i])

(***************************************************************************)
(* Think-Before-Reveal mode (app.py:162-279, 526-533) with the mode's      *)
(* checkbox ticked: "Start Prediction Phase", the prediction interface,    *)
(* "Start Over" and "Run Analysis & Compare". Each button press is one run *)
(* of the script; extract_claims is taken as a whole, returning an         *)
(* extraction the validation loop accepts or raising.                      *)
(***************************************************************************)
\* the claim lists extract_claims may return; the prediction interface keys
\* its checkboxes by claim_id, so the lists here have distinct ids
PredictExtractions ==
    {cl \in {ValidatedDataOf[r].claims : r \in DOMAIN ValidatedDataOf} :
        \A i, j \in DOMAIN cl : cl[i].claim_id = cl[j].claim_id => i = j}

\* the boxes a user ticks for one claim
TickedSets == {{}, {"correlation"}, {"sample_size", "base_rate"}}

InitPredict ==
    /\ text_input \in PipelineTexts
    /\ SessionIdle
    /\ RetryEntry(ExtractMaxRetries, <<Prompt>>)
    /\ stage = "idle" /\ checked = <<>> /\ claim_check_results = <<>> /\ claim_audits = <<>>
    /\ claim = CoffeeClaim /\ checks = <<>>
    /\ claim_data = CoffeeClaim /\ claim_result = Pending
    /\ text_metrics = Unset /\ summary = None /\ reliability_score = Unset
    /\ shown = NothingShown
    /\ parked = NotStarted

\* what a run of the script that does not reach the analysis leaves of the
\* previous run's report: nothing
ReportCleared ==
    /\ checked' = <<>> /\ claim_check_results' = <<>> /\ claim_audits' = <<>>
    /\ text_metrics' = Unset /\ summary' = None /\ reliability_score' = Unset
    /\ accuracy_metrics' = Unset

\* app.py:177-183, extract_claims returned claims
StartPrediction(claims) ==
    /\ ~show_predictions
    /\ extracted_claims' = claims
    /\ show_predictions' = TRUE
    /\ shown' = NothingShown
    /\ stage' = "idle"
    /\ ReportCleared
    /\ UNCHANGED <<text_input, user_predictions, parked, retryVars, ruleVars, schemaVars>>

\* app.py:184-185, extract_claims raised
StartPredictionRaises(err) ==
    /\ ~show_predictions
    /\ shown' = [NothingShown EXCEPT !.error = <<"Error extracting claims: " \o err.text>>]
    /\ stage' = "idle"
    /\ ReportCleared
    /\ UNCHANGED <<text_input, show_predictions, extracted_claims, user_predictions, parked,
                   retryVars, ruleVars, schemaVars>>

\* app.py:188-267, a run of the script with the slider at max_to_show and the
\* boxes of ticked[i] ticked for the i-th claim under review
MakePredictions(max_to_show, ticked) ==
    /\ show_predictions
    /\ extracted_claims # <<>>
    /\ LET claims_to_review == SubSeq(extracted_claims, 1, max_to_show)
           claims_to_review_ids == {claims_to_review[i].claim_id : i \in DOMAIN claims_to_review}
       IN  user_predictions' =
               [id \in claims_to_review_ids |->
                   PredictionDict(ticked[CHOOSE i \in DOMAIN claims_to_review :
                                             claims_to_review[i].claim_id = id])]
    /\ shown' = NothingShown
    /\ stage' = "idle"
    /\ ReportCleared
    /\ UNCHANGED <<text_input, show_predictions, extracted_claims, parked, retryVars,
                   ruleVars, schemaVars>>

\* app.py:271-275
StartOver ==
    /\ show_predictions
    /\ show_predictions' = FALSE
    /\ user_predictions' = <<>>
    /\ extracted_claims' = <<>>
    /\ shown' = NothingShown
    /\ stage' = "idle"
    /\ ReportCleared
    /\ UNCHANGED <<text_input, parked, retryVars, ruleVars, schemaVars>>

\* app.py:280-365 and 526-533: the analysis button; extract_claims is called
\* again (app.py:306) and returned claims, generate_audit_summary returned s
RunAnalysis(claims, s) ==
    /\ checked' = claims
    /\ claim_check_results' = ClaimCheckResults(claims)
    /\ claim_audits' = ClaimAudits(claims, ClaimCheckResults(claims))
    /\ text_metrics' = MetricsOf[text_input]
    /\ summary' = s
    /\ reliability_score' = calculate_reliability_score(MetricsOf[text_input],
                                ClaimAudits(claims, ClaimCheckResults(claims)))
    /\ accuracy_metrics' =
           IF user_predictions # <<>>
           THEN calculate_prediction_accuracy(user_predictions,
                    ClaimAudits(claims, ClaimCheckResults(claims)))
           ELSE Unset
    /\ shown' = [NothingShown EXCEPT !.step1 = "success", !.step2 = "success",
                                     !.step3 = "success"]
    /\ stage' = "done"
    /\ UNCHANGED <<text_input, sessionVarsKept, parked, retryVars, ruleVars, schemaVars>>

\* app.py:614-629, one of the two service calls of the analysis raised
RunAnalysisRaises(err) ==
    /\ shown' = [NothingShown EXCEPT !.step1 = "info", !.error = ErrorDisplay(err)]
    /\ ReportCleared
    /\ stage' = "error"
    /\ UNCHANGED <<text_input, sessionVarsKept, parked, retryVars, ruleVars, schemaVars>>

NextPredict ==
    \/ \E claims \in PredictExtractions : StartPrediction(claims)
    \/ \E err \in UpstreamErrors : StartPredictionRaises(err)
    \/ \E n \in 1..Len(extracted_claims) :
           \E ticked \in [1..n -> TickedSets] : MakePredictions(n, ticked)
    \/ StartOver
    \/ \E claims \in PredictExtractions, s \in SummaryTexts : RunAnalysis(claims, s)
    \/ \E err \in UpstreamErrors : RunAnalysisRaises(err)

SpecPredict == InitPredict /\ [][NextPredict]_vars

\* the claim the prediction interface showed under id
C29_ShownUnder(id) ==
    extracted_claims[CHOOSE i \in DOMAIN extracted_claims : extracted_claims[i].claim_id = id]

\* C29: in predict-first mode, after Start Prediction Phase and Run Analysis &
\* Compare, every claim the user predicted on is compared, and every per-claim
\* comparison pairs the predictions stored under a claim id with the audit of
\* the claim (same quote, that claim's failed checks) shown under that id.
C29_ComparedClaimsAreTheShownClaims ==
    (show_predictions /\ accuracy_metrics # Unset) =>
        /\ DOMAIN accuracy_metrics.per_claim = DOMAIN user_predictions
        /\ \A id \in DOMAIN accuracy_metrics.per_claim :
               LET entry == accuracy_metrics.per_claim[id]
                   shown_claim == C29_ShownUnder(id)
               IN  /\ entry.quote = shown_claim.quote
                   /\ entry.predicted = {k \in PredictionKeys : user_predictions[id][k]}
                   /\ entry.actual =
                          ActualIssues([checks_performed |-> check_claim(shown_claim)])

(***************************************************************************)
(* app.py:319-344 for an extraction of one claim: the checks of the claim  *)
(* and the audit built from them, for every claim of the rule              *)
(* specification.                                                          *)
(***************************************************************************)
InitAudit ==
    /\ claim \in Claims
    /\ checks = <<>>
    /\ claim_check_results = <<>> /\ claim_audits = <<>>
    /\ RetryEntry(ExtractMaxRetries, <<Prompt>>)
    /\ stage = "step1" /\ checked = <<>>
    /\ claim_data = CoffeeClaim /\ claim_result = Pending
    /\ text_input = AnalyzerText
    /\ text_metrics = Unset /\ summary = None /\ reliability_score = Unset
    /\ shown = NothingShown
    /\ parked = NotStarted /\ SessionIdle

\* app.py:319-344 with claims_extraction.claims = [claim]
AuditClaim ==
    /\ stage = "step1"
    /\ \E cs \in {check_claim(claim)} :
           /\ checks' = cs
           /\ claim_check_results' = [id \in {claim.claim_id} |-> cs]
           /\ claim_audits' = ClaimAudits(<<claim>>, [id \in {claim.claim_id} |-> cs])
    /\ checked' = <<claim>>
    /\ stage' = "step2"
    /\ UNCHANGED <<claim, retryVars, schemaVars, reportVars, parked, sessionVars>>

NextAudit == AuditClaim

SpecAudit == InitAudit /\ [][NextAudit]_vars

\* the rules whose failure can have severity high
C30_HighRules == {"Correlation vs Causation", "Extreme Language",
                  "Relative Risk Without Context", "Missing Comparator"}

\* C30: no audit has overall_status critical: the status of every audit is
\* clean, minor_issues or major_issues, and it is major_issues exactly when
\* one of the rules Correlation vs Causation, Extreme Language, Relative Risk
\* Without Context, Missing Comparator failed with severity high.
C30_NoCriticalStatus ==
    \A i \in DOMAIN claim_audits :
        LET audit == claim_audits[i]
            cs == audit.checks_performed
        IN  /\ audit.overall_status \in {"clean", "minor_issues", "major_issues"}
            /\ audit.overall_status = "major_issues"
                   <=> \E k \in DOMAIN cs : /\ cs[k].check_name \in C30_HighRules
                                            /\ ~cs[k].passed
                                            /\ cs[k].severity = "high"

\* a claim audited as major_issues because the relative-risk rule failed
C30_Witness ==
    \E i \in DOMAIN claim_audits :
        /\ claim_audits[i].overall_status = "major_issues"
        /\ \E k \in DOMAIN claim_audits[i].checks_performed :
               /\ claim_audits[i].checks_performed[k].check_name = "Relative Risk Without Context"
               /\ ~claim_audits[i].checks_performed[k].passed
====
